---- MODULE Spec2Model ----
(***************************************************************************)
(* Model of the Coverage Highlighter extension core: the line drift        *)
(* tracker (lineTracker.ts), the path suffix matching of the coverage      *)
(* parser (coverageParser.ts), the classification store and its index      *)
(* (classificationManager.ts) and the cache life cycle of extension.ts.    *)
(***************************************************************************)
EXTENDS Integers, Sequences, FiniteSets, TLC

VARIABLES
    coverageData,         \* extension.ts: coverageData (NoData = undefined)
    trackedFiles,         \* LineTracker.trackedFiles: path -> TrackedLines
    originalLines,        \* LineTracker.originalLines: path -> TrackedLines
    lineOffsets,          \* LineTracker.lineOffsets: path -> (line -> offset)
    sharing,              \* which tracked Set objects are also held elsewhere
    cacheFile,            \* .vscode/coverage-cache.json (NoCache = no file)
    saveTimeout,          \* extension.ts: saveTimeout is armed
    timers,               \* timers of setTimeout neither fired nor cleared
    commands,             \* command handlers that wait at an await of the host
    reasons,              \* ClassificationManager.reasons: the ReasonItems, in order
    deactivated,          \* deactivate() has run
    disposed,             \* the subscriptions of the context are disposed
    edits,                \* content changes handled so far (bounded run)
    last,                 \* the last operation, its input and its result
    classifications,      \* ClassificationManager.classifications (ordered)
    classificationIndex,  \* ClassificationManager.classificationIndex
    filePathCache,        \* coverageParser.ts: filePathCache
    workspaceFiles,       \* the files vscode.workspace.findFiles can see
    calls,                \* the calls of findLocalFilePathAsync in flight
    resolved,             \* history: the first result completed per report path
    xmlFile               \* the report file on disk, as the XML library parses it

trackerVars == <<trackedFiles, originalLines, lineOffsets, sharing>>
extVars == <<coverageData, cacheFile, saveTimeout, timers, commands, reasons,
             deactivated, disposed, edits, xmlFile>>
classVars == <<classifications, classificationIndex>>
resolverVars == <<filePathCache, workspaceFiles, calls, resolved>>
vars == <<coverageData, trackedFiles, originalLines, lineOffsets, sharing, cacheFile,
          saveTimeout, timers, commands, reasons, deactivated, disposed, edits, last,
          classifications, classificationIndex,
          filePathCache, workspaceFiles, calls, resolved, xmlFile>>

(***************************************************************************)
(* Bounds of the model.                                                    *)
(***************************************************************************)
\* content changes handled in one run, over all events
MaxEdits == 2
\* most entries held by the classification groups together
MaxEntries == 3

(***************************************************************************)
(* Maps (JavaScript Map / object) as functions with a finite domain.       *)
(***************************************************************************)
EmptyMap == [x \in {} |-> 0]
Put(m, k, v) == [x \in (DOMAIN m) \cup {k} |-> IF x = k THEN v ELSE m[x]]
Delete(m, k) == [x \in (DOMAIN m) \ {k} |-> m[x]]

(***************************************************************************)
(* Paths.  A path string is a sequence of tokens: a separator "/" or "\\", *)
(* or a name (a maximal run of non-separator characters, never empty).     *)
(***************************************************************************)
Sep == {"/", "\\"}

\* String.prototype.toLowerCase on the names the model uses
ToLowerCase(name) ==
    CASE name = "C:" -> "c:"
      [] name = "D:" -> "d:"
      [] name = "Work" -> "work"
      [] name = "Build" -> "build"
      [] name = "Src" -> "src"
      [] name = "Pkg" -> "pkg"
      [] name = "Mod" -> "mod"
      [] name = "File.c" -> "file.c"
      [] OTHER -> name

\* filePath.replace(/\\/g, '/').toLowerCase()
normalizePath(filePath) ==
    [i \in 1..Len(filePath) |->
        IF filePath[i] \in Sep THEN "/" ELSE ToLowerCase(filePath[i])]

\* normalized.split('/').filter(p => p.length > 0): the names between the
\* separators; the empty parts of leading or doubled separators are dropped
SplitParts(normalized) == SelectSeq(normalized, LAMBDA t : t # "/")

\* parts.slice(-depth) for depth >= 1
SliceLast(parts, depth) ==
    SubSeq(parts, IF Len(parts) > depth THEN Len(parts) - depth + 1 ELSE 1, Len(parts))

\* parts.join('/')
RECURSIVE JoinSlash(_)
JoinSlash(parts) ==
    IF Len(parts) = 0 THEN <<>>
    ELSE IF Len(parts) = 1 THEN parts
    ELSE <<Head(parts), "/">> \o JoinSlash(Tail(parts))

DefaultDepth == 5
MinDepth == 2

getPathSuffix(filePath, depth) ==
    JoinSlash(SliceLast(SplitParts(normalizePath(filePath)), depth))

(***************************************************************************)
(* Coverage report (coverageParser.ts).  CoverageData.files is a Map, kept *)
(* here as the sequence of its FileCoverage values in insertion order.     *)
(***************************************************************************)
NoData == [undefined |-> TRUE]

ReportPath == <<"C:", "/", "build", "/", "src", "/", "pkg", "/", "mod", "/", "file.c">>
ReportPathB == <<"C:", "/", "build", "/", "src", "/", "pkg", "/", "io", "/", "util.c">>
\* suffix-equal to ReportPath at depth 5, spelled the Windows way
LocalPath5 == <<"D:", "\\", "Work", "\\", "Build", "\\", "Src", "\\", "Pkg", "\\", "Mod", "\\", "File.c">>
\* suffix-equal to ReportPath at depth 4 and no deeper
LocalPath4 == <<"/", "home", "/", "u", "/", "proj", "/", "src", "/", "pkg", "/", "mod", "/", "file.c">>
\* suffix-equal to ReportPath at depth 2 and no deeper
LocalPath2 == <<"/", "home", "/", "u", "/", "proj", "/", "lib", "/", "mod", "/", "file.c">>
\* shares only the file name with ReportPath
LocalPath1 == <<"/", "home", "/", "u", "/", "proj", "/", "lib", "/", "file.c">>

Report ==
    [files |-> <<
        [fileName |-> ReportPath, coveredLines |-> {5, 9},
         uncoveredLines |-> {10, 11, 12}, partialCoveredLines |-> {14}],
        [fileName |-> ReportPathB, coveredLines |-> {1},
         uncoveredLines |-> {2}, partialCoveredLines |-> {}] >>]

NotFound == [undefined |-> TRUE]

RECURSIVE FirstMatch(_, _, _)
FirstMatch(localSuffix, coverageFiles, matchDepth) ==
    IF coverageFiles = <<>> THEN NotFound
    ELSE IF localSuffix = getPathSuffix(Head(coverageFiles).fileName, matchDepth)
         THEN Head(coverageFiles)
         ELSE FirstMatch(localSuffix, Tail(coverageFiles), matchDepth)

RECURSIVE findMatchingCoverageAt(_, _, _)
findMatchingCoverageAt(localFilePath, coverageFiles, matchDepth) ==
    LET found == FirstMatch(getPathSuffix(localFilePath, matchDepth),
                            coverageFiles, matchDepth)
    IN  IF found # NotFound THEN found
        ELSE IF matchDepth > MinDepth
             THEN findMatchingCoverageAt(localFilePath, coverageFiles, matchDepth - 1)
             ELSE NotFound

\* a search that takes the entries in order and returns the first one that
\* matches at any depth from 5 down to 2
RECURSIVE findMatchingCoverageEntryFirst(_, _)
findMatchingCoverageEntryFirst(localFilePath, coverageFiles) ==
    IF coverageFiles = <<>> THEN NotFound
    ELSE IF findMatchingCoverageAt(localFilePath, <<Head(coverageFiles)>>,
                                   DefaultDepth) # NotFound
         THEN Head(coverageFiles)
         ELSE findMatchingCoverageEntryFirst(localFilePath, Tail(coverageFiles))

findMatchingCoverage(localFilePath, coverageFiles) ==
    findMatchingCoverageAt(localFilePath, coverageFiles, DefaultDepth)

(***************************************************************************)
(* The resolution cache and findLocalFilePathAsync (coverageParser.ts).    *)
(* filePathCache maps a report path to the local path found for it, or to  *)
(* Null when none was found.  A call awaits vscode.workspace.findFiles     *)
(* once per depth it tries; what runs between two awaits is one step.      *)
(***************************************************************************)
\* null as a cached value: the one token sequence that is no path string,
\* since a name is never empty
Null == <<"">>
\* undefined where a path string is expected; `cached || undefined` returns
\* it for the empty string too
NoPath == <<>>

\* calls of findLocalFilePathAsync that can be in flight together
MaxCalls == 2

IdleCall == [pc |-> "idle", path |-> <<>>, depth |-> 0]
NoCalls == [c \in 1..MaxCalls |-> IdleCall]

\* coverageFilePath.split(/[/\\]/).pop() || '': the name after the last
\* separator, <<>> for the empty string
FileNameOf(filePath) ==
    IF filePath = <<>> \/ filePath[Len(filePath)] \in Sep THEN <<>>
    ELSE <<filePath[Len(filePath)]>>

\* cached || undefined
CachedOrUndefined(cached) == IF cached = Null THEN NoPath ELSE cached

\* findLocalFilePath: the synchronous lookup, cached results only
findLocalFilePath(cache, coverageFilePath) ==
    IF coverageFilePath \in DOMAIN cache
    THEN CachedOrUndefined(cache[coverageFilePath])
    ELSE NoPath

\* the files findFiles(`**/${fileName}`) returns
findFiles(files, fileName) == {f \in files : FileNameOf(f) = fileName}

\* findLocalFilePathAsync from its entry to its first await or return:
\* [cache, searching, found]
AsyncEntry(cache, coverageFilePath) ==
    IF coverageFilePath \in DOMAIN cache
    THEN [cache |-> cache, searching |-> FALSE,
          found |-> CachedOrUndefined(cache[coverageFilePath])]
    ELSE IF FileNameOf(coverageFilePath) = <<>>
         THEN [cache |-> Put(cache, coverageFilePath, Null), searching |-> FALSE,
               found |-> NoPath]
         ELSE [cache |-> cache, searching |-> TRUE, found |-> NoPath]

\* the local files of `found` whose suffix equals the one of the report path
SuffixHits(found, coverageFilePath, matchDepth) ==
    {f \in found : getPathSuffix(f, matchDepth) = getPathSuffix(coverageFilePath, matchDepth)}

\* findLocalFilePathAsync from the return of findFiles to its next await or
\* return, `first` being the first file of the result whose suffix matches:
\* [cache, searching, depth, found]
AsyncResume(cache, coverageFilePath, matchDepth, hits, first) ==
    IF hits # {}
    THEN [cache |-> Put(cache, coverageFilePath, first), searching |-> FALSE,
          depth |-> matchDepth, found |-> first]
    ELSE IF matchDepth > MinDepth
         THEN LET inner == AsyncEntry(cache, coverageFilePath)
              IN  [cache |-> inner.cache, searching |-> inner.searching,
                   depth |-> matchDepth - 1, found |-> inner.found]
         ELSE [cache |-> Put(cache, coverageFilePath, Null), searching |-> FALSE,
               depth |-> matchDepth, found |-> NoPath]

\* the catch branch: [cache, searching, depth, found]
AsyncCatch(cache, coverageFilePath, matchDepth) ==
    [cache |-> Put(cache, coverageFilePath, Null), searching |-> FALSE,
     depth |-> matchDepth, found |-> NoPath]

(***************************************************************************)
(* LineTracker (lineTracker.ts).                                           *)
(***************************************************************************)
Lines(c) == [coveredLines |-> c.coveredLines,
             uncoveredLines |-> c.uncoveredLines,
             partialCoveredLines |-> c.partialCoveredLines]

\* adjustLines with a line of an extended range kept where it is
adjustLinesKeepInRange(lineSet, startLine, endLine, delta) ==
    {line \in lineSet : line < startLine}
    \cup {line + delta : line \in {l \in lineSet : l > endLine}}
    \cup {line \in lineSet : line >= startLine /\ line <= endLine /\ delta >= 0}
    \cup {line + delta : line \in {l \in lineSet :
              l >= startLine /\ l <= endLine /\ delta < 0 /\ l + delta >= startLine}}

adjustLinesKeepPlace(lineSet, startLine, endLine, delta) ==
    {line \in lineSet : line < startLine}
    \cup {line + delta : line \in {l \in lineSet : l > endLine}}
    \cup {line \in lineSet : /\ line >= startLine
                              /\ line <= endLine
                              /\ (delta >= 0 \/ line + delta >= startLine)}

adjustLinesNoDrop(lineSet, startLine, endLine, delta) ==
    {line \in lineSet : line < startLine}
    \cup {line + delta : line \in {l \in lineSet : l >= startLine}}

adjustLines(lineSet, startLine, endLine, delta) ==
    {line \in lineSet : line < startLine}
    \cup {line + delta : line \in {l \in lineSet : l > endLine}}
    \cup {line + delta : line \in {l \in lineSet :
              /\ l >= startLine
              /\ l <= endLine
              /\ (delta >= 0 \/ l + delta >= startLine)}}

removeLines(lineSet, startLine, endLine) == lineSet \ (startLine..endLine)

updateOffsets(offsets, startLine, delta) ==
    LET newOffsets == [line \in DOMAIN offsets |->
                          IF line >= startLine THEN offsets[line] + delta
                          ELSE offsets[line]]
        existingOffset == IF startLine \in DOMAIN newOffsets
                          THEN newOffsets[startLine] ELSE 0
    IN  Put(newOffsets, startLine, existingOffset + delta)

\* a change is [start, end: 0-based lines of change.range,
\*              newlines: "\n" count of change.text]
\* lines the text of a change spans, counted without the line it ends in
NewLineCountNoLast(change) == change.newlines

\* (change.text.match(/\n/g) || []).length + 1
NewLineCount(change) == change.newlines + 1

\* one pass of the loop over event.contentChanges
ChangeStep(st, change) ==
    LET startLine == change.start + 1
        endLine == change.end + 1
        oldLineCount == endLine - startLine + 1
        newLineCount == NewLineCount(change)
        lineDelta == newLineCount - oldLineCount
        adj == IF lineDelta # 0
               THEN [coveredLines |->
                        adjustLines(st.tracked.coveredLines, startLine, endLine, lineDelta),
                     uncoveredLines |->
                        adjustLines(st.tracked.uncoveredLines, startLine, endLine, lineDelta),
                     partialCoveredLines |->
                        adjustLines(st.tracked.partialCoveredLines, startLine, endLine, lineDelta)]
               ELSE st.tracked
        deleteStart == startLine
        deleteEnd == startLine + (oldLineCount - newLineCount) - 1
        del == IF oldLineCount > newLineCount
               THEN [coveredLines |-> removeLines(adj.coveredLines, deleteStart, deleteEnd),
                     uncoveredLines |-> removeLines(adj.uncoveredLines, deleteStart, deleteEnd),
                     partialCoveredLines |->
                        removeLines(adj.partialCoveredLines, deleteStart, deleteEnd)]
               ELSE adj
    IN  [tracked |-> del,
         offsets |-> IF lineDelta # 0
                     THEN updateOffsets(st.offsets, startLine, lineDelta)
                     ELSE st.offsets,
         updated |-> st.updated \/ lineDelta # 0,
         changed |-> st.changed \/ lineDelta # 0 \/ oldLineCount > newLineCount]

RECURSIVE ChangeLoop(_, _)
ChangeLoop(st, contentChanges) ==
    IF contentChanges = <<>> THEN st
    ELSE ChangeLoop(ChangeStep(st, Head(contentChanges)), Tail(contentChanges))

\* the outcome of handleDocumentChange for a tracked file
handleDocumentChange(filePath, contentChanges) ==
    ChangeLoop([tracked |-> trackedFiles[filePath],
                offsets |-> IF filePath \in DOMAIN lineOffsets
                            THEN lineOffsets[filePath] ELSE EmptyMap,
                updated |-> FALSE,
                changed |-> FALSE],
               contentChanges)

\* calculateOffset that counts the offsets of the lines before `line` only
calculateOffsetStrict(offsets, line) ==
    LET keys == {k \in DOMAIN offsets : k < line}
        RECURSIVE Sum(_)
        Sum(S) == IF S = {} THEN 0
                  ELSE LET k == CHOOSE x \in S : TRUE IN offsets[k] + Sum(S \ {k})
    IN  Sum(keys)

calculateOffset(offsets, line) ==
    LET keys == {k \in DOMAIN offsets : k <= line}
        RECURSIVE Sum(_)
        Sum(S) == IF S = {} THEN 0
                  ELSE LET k == CHOOSE x \in S : TRUE IN offsets[k] + Sum(S \ {k})
    IN  Sum(keys)

adjustLineSet(offsets, lineSet) ==
    {line + calculateOffset(offsets, line) :
        line \in {l \in lineSet : l + calculateOffset(offsets, l) > 0}}

\* applyOffsetsToFile that returns the lines of the report as they are
applyOffsetsToFileIgnored(allOffsets, filePath, coverage) == coverage

applyOffsetsToFile(allOffsets, filePath, coverage) ==
    IF filePath \notin DOMAIN allOffsets \/ DOMAIN allOffsets[filePath] = {}
    THEN coverage
    ELSE [fileName |-> coverage.fileName,
          coveredLines |-> adjustLineSet(allOffsets[filePath], coverage.coveredLines),
          uncoveredLines |-> adjustLineSet(allOffsets[filePath], coverage.uncoveredLines),
          partialCoveredLines |->
              adjustLineSet(allOffsets[filePath], coverage.partialCoveredLines)]

registerFile(files, filePath, lines) == Put(files, filePath, Lines(lines))

\* lineOffsets after registerFile: an entry that exists is kept
\* registerFile that stores the Sets it is given in both Maps
registerSharesSets(shared, filePath) ==
    shared \cup {<<filePath, "report">>, <<filePath, "baseline">>}

\* Set objects are mutated in place (adjustLines, removeLines).  A pair
\* <<f, "report">> says that the Sets of trackedFiles.get(f) are the Sets of
\* the FileCoverage of the report, <<f, "baseline">> that they are the Sets
\* of originalLines.get(f).  registerFile stores new Set(...) copies in both
\* Maps, so the registered file shares nothing.
registerShares(shared, filePath) == {p \in shared : p[1] # filePath}

registerOffsets(allOffsets, filePath) ==
    IF filePath \in DOMAIN allOffsets THEN allOffsets
    ELSE Put(allOffsets, filePath, EmptyMap)

\* getUncoveredBlock with the partial lines left out of the block
getUncoveredBlockNoPartial(tracked, filePath, line) ==
    IF filePath \notin DOMAIN tracked THEN <<line>>
    ELSE LET uncoveredSet == tracked[filePath].uncoveredLines
             RECURSIVE Up(_), Down(_)
             Up(currentLine) ==
                 IF currentLine >= 1 /\ currentLine \in uncoveredSet
                 THEN Up(currentLine - 1) \o <<currentLine>> ELSE <<>>
             Down(currentLine) ==
                 IF currentLine \in uncoveredSet
                 THEN <<currentLine>> \o Down(currentLine + 1) ELSE <<>>
         IN  IF line \notin uncoveredSet THEN <<line>>
             ELSE Up(line - 1) \o <<line>> \o Down(line + 1)

\* getUncoveredBlock on the tracked files `tracked`
getUncoveredBlock(tracked, filePath, line) ==
    IF filePath \notin DOMAIN tracked THEN <<line>>
    ELSE LET uncoveredSet == tracked[filePath].uncoveredLines
                             \cup tracked[filePath].partialCoveredLines
             RECURSIVE Up(_), Down(_)
             \* block.unshift(currentLine) while currentLine >= 1 is uncovered
             Up(currentLine) ==
                 IF currentLine >= 1 /\ currentLine \in uncoveredSet
                 THEN Up(currentLine - 1) \o <<currentLine>> ELSE <<>>
             \* block.push(currentLine) while currentLine is uncovered
             Down(currentLine) ==
                 IF currentLine \in uncoveredSet
                 THEN <<currentLine>> \o Down(currentLine + 1) ELSE <<>>
         IN  IF line \notin uncoveredSet THEN <<line>>
             ELSE Up(line - 1) \o <<line>> \o Down(line + 1)

(***************************************************************************)
(* The cache file (extension.ts).  JSON object keys are strings: a line    *)
(* number is written as its decimal digits and read back with parseInt.    *)
(***************************************************************************)
NoCache == [missing |-> TRUE]

Digits == <<"0", "1", "2", "3", "4", "5", "6", "7", "8", "9">>

RECURSIVE NumToStr(_)
NumToStr(n) ==
    IF n < 10 THEN <<Digits[n + 1]>>
    ELSE NumToStr(n \div 10) \o <<Digits[(n % 10) + 1]>>

DigitValue(ch) == CHOOSE d \in 0..9 : Digits[d + 1] = ch

RECURSIVE ParseIntFrom(_, _)
ParseIntFrom(acc, str) ==
    IF str = <<>> THEN acc
    ELSE ParseIntFrom(acc * 10 + DigitValue(Head(str)), Tail(str))

parseInt(str) == ParseIntFrom(0, str)

(***************************************************************************)
(* The report parser (coverageParser.ts).  Strings are sequences of        *)
(* characters.  The XML library hands parseCoverageXmlContent the          *)
(* functionCoverage records; a list element it turned into a number is     *)
(* written here as String(value), its decimal text.                        *)
(***************************************************************************)
IsDigit(ch) == \E d \in 1..10 : Digits[d] = ch

\* s.trim()
RECURSIVE TrimStart(_)
TrimStart(s) == IF s # <<>> /\ Head(s) = " " THEN TrimStart(Tail(s)) ELSE s

RECURSIVE TrimEnd(_)
TrimEnd(s) ==
    IF s # <<>> /\ s[Len(s)] = " " THEN TrimEnd(SubSeq(s, 1, Len(s) - 1)) ELSE s

Trim(s) == TrimEnd(TrimStart(s))

\* str.split(','): the pieces between the commas, empty pieces included
RECURSIVE Split(_, _)
Split(piece, rest) ==
    IF rest = <<>> THEN <<piece>>
    ELSE IF Head(rest) = "," THEN <<piece>> \o Split(<<>>, Tail(rest))
    ELSE Split(Append(piece, Head(rest)), Tail(rest))

\* the longest prefix of decimal digits
RECURSIVE DigitPrefix(_)
DigitPrefix(s) ==
    IF s # <<>> /\ IsDigit(Head(s)) THEN <<Head(s)>> \o DigitPrefix(Tail(s)) ELSE <<>>

\* parseInt(s, 10) followed by the isNaN filter: <<n>> for a number, <<>> for
\* NaN
parseIntRadix10(s) ==
    LET t == TrimStart(s)
        signed == t # <<>> /\ Head(t) \in {"-", "+"}
        digits == DigitPrefix(IF signed THEN Tail(t) ELSE t)
    IN  IF digits = <<>> THEN <<>>
        ELSE IF signed /\ Head(t) = "-" THEN <<0 - parseInt(digits)>>
        ELSE <<parseInt(digits)>>

RECURSIVE ParseEach(_)
ParseEach(pieces) ==
    IF pieces = <<>> THEN <<>>
    ELSE parseIntRadix10(Trim(Head(pieces))) \o ParseEach(Tail(pieces))

\* parseLineList(value); an absent element is the empty string
parseLineList(value) ==
    IF value = <<>> THEN <<>>
    ELSE IF Trim(value) = <<>> THEN <<>>
    ELSE ParseEach(Split(<<>>, value))

Elements(seq) == {seq[i] : i \in 1..Len(seq)}

\* the position of fileName in the Map `files`, 0 when it has no such key
FileAt(files, fileName) ==
    IF \E i \in 1..Len(files) : files[i].fileName = fileName
    THEN CHOOSE i \in 1..Len(files) : files[i].fileName = fileName
    ELSE 0

\* the loop of parseCoverageXmlContent with each list replacing the set of
\* the file
RECURSIVE ParseLoopOverwrite(_, _)
ParseLoopOverwrite(files, functionCoverages) ==
    IF functionCoverages = <<>> THEN files
    ELSE LET fc == Head(functionCoverages)
             created == IF FileAt(files, fc.fileName) = 0
                        THEN Append(files, [fileName |-> fc.fileName,
                                            coveredLines |-> {},
                                            uncoveredLines |-> {},
                                            partialCoveredLines |-> {}])
                        ELSE files
             i == FileAt(created, fc.fileName)
             added == [fileName |-> fc.fileName,
                       coveredLines |-> Elements(parseLineList(fc.coveredStatementList)),
                       uncoveredLines |-> Elements(parseLineList(fc.unCoveredStatementList)),
                       partialCoveredLines |->
                           Elements(parseLineList(fc.partialCoveredStatementList))]
         IN  IF fc.fileName = <<>> THEN ParseLoopOverwrite(files, Tail(functionCoverages))
             ELSE ParseLoopOverwrite([created EXCEPT ![i] = added], Tail(functionCoverages))

\* the loop of parseCoverageXmlContent over the functionCoverage records
RECURSIVE ParseLoop(_, _)
ParseLoop(files, functionCoverages) ==
    IF functionCoverages = <<>> THEN files
    ELSE LET fc == Head(functionCoverages)
             created == IF FileAt(files, fc.fileName) = 0
                        THEN Append(files, [fileName |-> fc.fileName,
                                            coveredLines |-> {},
                                            uncoveredLines |-> {},
                                            partialCoveredLines |-> {}])
                        ELSE files
             i == FileAt(created, fc.fileName)
             fileCov == created[i]
             added == [fileName |-> fileCov.fileName,
                       coveredLines |-> fileCov.coveredLines
                           \cup Elements(parseLineList(fc.coveredStatementList)),
                       uncoveredLines |-> fileCov.uncoveredLines
                           \cup Elements(parseLineList(fc.unCoveredStatementList)),
                       partialCoveredLines |-> fileCov.partialCoveredLines
                           \cup Elements(parseLineList(fc.partialCoveredStatementList))]
         IN  IF fc.fileName = <<>> THEN ParseLoop(files, Tail(functionCoverages))
             ELSE ParseLoop([created EXCEPT ![i] = added], Tail(functionCoverages))

\* parseCoverageXmlContent on a report whose root holds `functionCoverages`
parseCoverageXmlContent(functionCoverages) ==
    [files |-> ParseLoop(<<>>, functionCoverages)]

\* the Error parseCoverageXmlContent throws for a document without the
\* cv.CoverResult root
InvalidReport ==
    [error |-> "Invalid coverage XML format: missing cv.CoverResult root element"]

\* what parser.parse returns for the report file: whether it has the root
\* cv.CoverResult, and the functionCoverage records of the root
Document(hasRoot, functionCoverages) ==
    [root |-> hasRoot, functionCoverage |-> functionCoverages]

\* parseCoverageXml that reads a document without the root as an empty report
parseCoverageXmlNoCheck(parsed) == parseCoverageXmlContent(parsed.functionCoverage)

\* parseCoverageXml(xmlPath) on the file whose parsed content is `parsed`
parseCoverageXml(parsed) ==
    IF ~parsed.root THEN InvalidReport
    ELSE parseCoverageXmlContent(parsed.functionCoverage)

FunctionCoverage(fileName, covered, uncovered, partial) ==
    [fileName |-> fileName, coveredStatementList |-> covered,
     unCoveredStatementList |-> uncovered, partialCoveredStatementList |-> partial]

\* the report file of the fixture Report
ReportDocument ==
    Document(TRUE,
        <<FunctionCoverage(ReportPath, <<"5", ",", "9">>,
                           <<"1", "0", ",", "1", "1", ",", "1", "2">>, <<"1", "4">>),
          FunctionCoverage(ReportPathB, <<"1">>, <<"2">>, <<>>)>>)

\* Object.fromEntries(offsets)
OffsetsToObject(offsets) ==
    [key \in {NumToStr(line) : line \in DOMAIN offsets} |-> offsets[parseInt(key)]]

\* what saveCache writes
CacheOf(allOffsets, groups) ==
    [lineOffsets |-> [filePath \in DOMAIN allOffsets |->
                         OffsetsToObject(allOffsets[filePath])],
     classifications |-> groups]

\* lineOffsets after importOffsets(data) on the offsets `allOffsets`
importOffsets(allOffsets, data) ==
    [filePath \in (DOMAIN allOffsets) \cup (DOMAIN data) |->
        IF filePath \in DOMAIN data
        THEN [line \in {parseInt(key) : key \in DOMAIN data[filePath]} |->
                 data[filePath][CHOOSE key \in DOMAIN data[filePath] :
                                    parseInt(key) = line]]
        ELSE allOffsets[filePath]]

(***************************************************************************)
(* ClassificationManager (classificationManager.ts).  `classifications`    *)
(* is a Map from "category:reason" to a list: here the sequence of its     *)
(* [key, list] entries in insertion order, the key kept as the pair        *)
(* <<category, reason>>.  A ClassifiedLine is kept without fileName, which *)
(* is path.basename(filePath).  The index key "suffix:line" is kept as the *)
(* pair <<suffix, line>>.                                                  *)
(***************************************************************************)
getKey(category, reason) == <<category, reason>>

\* getPathSuffix(filePath) with the default depth; the suffixes of the paths
\* the model uses are evaluated once
SuffixTable == [p \in {ReportPath, ReportPathB, LocalPath5, LocalPath4,
                       LocalPath2, LocalPath1} |-> getPathSuffix(p, DefaultDepth)]

getPathSuffixDefault(filePath) ==
    IF filePath \in DOMAIN SuffixTable THEN SuffixTable[filePath]
    ELSE getPathSuffix(filePath, DefaultDepth)

getIndexKey(filePath, line) == <<getPathSuffixDefault(filePath), line>>

pathsMatch(path1, path2) == getPathSuffixDefault(path1) = getPathSuffixDefault(path2)

addToIndex(index, item) == Put(index, getIndexKey(item.filePath, item.line), item)

removeFromIndex(index, filePath, line) == Delete(index, getIndexKey(filePath, line))

RECURSIVE IndexList(_, _)
IndexList(index, list) ==
    IF list = <<>> THEN index
    ELSE IndexList(addToIndex(index, Head(list)), Tail(list))

RECURSIVE IndexGroups(_, _)
IndexGroups(index, groups) ==
    IF groups = <<>> THEN index
    ELSE IndexGroups(IndexList(index, Head(groups).list), Tail(groups))

rebuildIndex(groups) == IndexGroups(EmptyMap, groups)

HasKey(groups, key) == \E i \in 1..Len(groups) : groups[i].key = key

GroupAt(groups, key) == CHOOSE i \in 1..Len(groups) : groups[i].key = key

\* classifyLine without its check for an entry that exists
classifyLineAlwaysPush(groups, index, filePath, line, category, reason) ==
    LET key == getKey(category, reason)
        classification == [filePath |-> filePath, line |-> line,
                           reason |-> reason, category |-> category]
        withKey == IF HasKey(groups, key) THEN groups
                   ELSE Append(groups, [key |-> key, list |-> <<>>])
        g == GroupAt(withKey, key)
    IN  [groups |-> [withKey EXCEPT ![g].list = Append(withKey[g].list, classification)],
         index |-> addToIndex(index, classification)]

\* classifyLine without its update of the index
classifyLineNoIndex(groups, index, filePath, line, category, reason) ==
    [groups |-> classifyLineAlwaysPush(groups, index, filePath, line,
                                       category, reason).groups,
     index |-> index]

\* the groups and the index after classifyLine
classifyLine(groups, index, filePath, line, category, reason) ==
    LET key == getKey(category, reason)
        classification == [filePath |-> filePath, line |-> line,
                           reason |-> reason, category |-> category]
        withKey == IF HasKey(groups, key) THEN groups
                   ELSE Append(groups, [key |-> key, list |-> <<>>])
        g == GroupAt(withKey, key)
        list == withKey[g].list
        exists == \E i \in 1..Len(list) :
                      list[i].filePath = filePath /\ list[i].line = line
    IN  IF exists THEN [groups |-> withKey, index |-> index]
        ELSE [groups |-> [withKey EXCEPT ![g].list = Append(list, classification)],
              index |-> addToIndex(index, classification)]

\* list.findIndex(c => pathsMatch(c.filePath, filePath) && c.line === line),
\* 1-based, 0 for -1
\* findIndex with a callback that compares the line only
FindIndexByLine(list, filePath, line) ==
    LET hits == {i \in 1..Len(list) : list[i].line = line}
    IN  IF hits = {} THEN 0 ELSE CHOOSE i \in hits : \A j \in hits : i <= j

FindIndex(list, filePath, line) ==
    LET hits == {i \in 1..Len(list) :
                    pathsMatch(list[i].filePath, filePath) /\ list[i].line = line}
    IN  IF hits = {} THEN 0 ELSE CHOOSE i \in hits : \A j \in hits : i <= j

Splice(list, i) == SubSeq(list, 1, i - 1) \o SubSeq(list, i + 1, Len(list))

\* the loop of removeClassification without the deletion of a group whose
\* list has become empty
RECURSIVE RemoveLoopKeepEmpty(_, _, _, _, _)
RemoveLoopKeepEmpty(todo, done, index, filePath, line) ==
    IF todo = <<>> THEN [groups |-> done, index |-> index]
    ELSE LET list == Head(todo).list
             i == FindIndex(list, filePath, line)
         IN  IF i = 0
             THEN RemoveLoopKeepEmpty(Tail(todo), Append(done, Head(todo)),
                                      index, filePath, line)
             ELSE RemoveLoopKeepEmpty(Tail(todo),
                                      Append(done, [key |-> Head(todo).key,
                                                    list |-> Splice(list, i)]),
                                      removeFromIndex(index, list[i].filePath, line),
                                      filePath, line)

\* the loop of removeClassification over the entries of the Map
RECURSIVE RemoveLoop(_, _, _, _, _)
RemoveLoop(todo, done, index, filePath, line) ==
    IF todo = <<>> THEN [groups |-> done, index |-> index]
    ELSE LET list == Head(todo).list
             i == FindIndex(list, filePath, line)
         IN  IF i = 0
             THEN RemoveLoop(Tail(todo), Append(done, Head(todo)), index, filePath, line)
             ELSE RemoveLoop(Tail(todo),
                             IF Len(list) = 1 THEN done
                             ELSE Append(done, [key |-> Head(todo).key,
                                                list |-> Splice(list, i)]),
                             removeFromIndex(index, list[i].filePath, line),
                             filePath, line)

removeClassification(groups, index, filePath, line) ==
    RemoveLoop(groups, <<>>, index, filePath, line)

isClassified(index, filePath, line) ==
    IF getIndexKey(filePath, line) \in DOMAIN index
    THEN index[getIndexKey(filePath, line)]
    ELSE NotFound

(***************************************************************************)
(* Inputs of the model.                                                    *)
(***************************************************************************)
\* the files of the workspace that editors show
LocalFiles == {LocalPath4, LocalPath1}

\* 0-based first lines of the content changes
ChangeStarts == {4, 10}
\* <<lines the range of a change extends past its first line,
\*   "\n" count of its text>>
ChangeShapes == {<<0, 0>>, <<0, 1>>, <<0, 2>>, <<1, 0>>, <<1, 1>>, <<1, 2>>, <<2, 0>>}

Changes == {[start |-> s, extent |-> sh[1], newlines |-> sh[2]] :
               s \in ChangeStarts, sh \in ChangeShapes}

ChangeOf(c) == [start |-> c.start, end |-> c.start + c.extent, newlines |-> c.newlines]

\* the contentChanges of an event: at most MaxEdits - edits changes
EventsOf(n) ==
    UNION {[1..k -> {ChangeOf(c) : c \in Changes}] : k \in 0..n}

Op(op, file, arg, result) == [op |-> op, file |-> file, arg |-> arg, result |-> result]

(***************************************************************************)
(* extension.ts                                                            *)
(***************************************************************************)
Active == ~deactivated /\ ~disposed

\* findMatchingCoverage over the files of Report, evaluated once
MatchTable == [f \in LocalFiles |-> findMatchingCoverage(f, Report.files)]

\* the tracker after applyHighlightsToEditor for an editor showing filePath
applyHighlightsToEditor(tr, data, filePath) ==
    LET coverage == IF data = Report THEN MatchTable[filePath]
                    ELSE findMatchingCoverage(filePath, data.files)
        adjustedCoverage == applyOffsetsToFile(tr.lineOffsets, filePath, coverage)
    IN  IF coverage = NotFound THEN tr
        ELSE [trackedFiles |-> registerFile(tr.trackedFiles, filePath, adjustedCoverage),
              originalLines |-> registerFile(tr.originalLines, filePath, adjustedCoverage),
              lineOffsets |-> registerOffsets(tr.lineOffsets, filePath),
              sharing |-> registerShares(tr.sharing, filePath)]

(***************************************************************************)
(* CoverageHighlighter (highlighter.ts).  A range is kept as the number of *)
(* its line; the three arrays handed to editor.setDecorations are sets.    *)
(***************************************************************************)
\* document.lineCount of the documents shown
DocumentLines == 40

NoHighlights == [coveredRanges |-> {}, uncoveredRanges |-> {}, partialRanges |-> {}]

\* CoverageHighlighter.applyHighlights(editor, coverage)
applyHighlights(lineCount, localFilePath, coverage, hideClassified, index) ==
    LET classifiedLines ==
            IF hideClassified
            THEN {lineNum \in coverage.uncoveredLines \cup coverage.partialCoveredLines :
                     \/ isClassified(index, localFilePath, lineNum) # NotFound
                     \/ isClassified(index, coverage.fileName, lineNum) # NotFound}
            ELSE {}
        InDocument(lineNum) == lineNum > 0 /\ lineNum <= lineCount
    IN  [coveredRanges |-> {lineNum \in coverage.coveredLines : InDocument(lineNum)},
         uncoveredRanges |-> {lineNum \in coverage.uncoveredLines :
                                 InDocument(lineNum) /\ lineNum \notin classifiedLines},
         partialRanges |-> {lineNum \in coverage.partialCoveredLines :
                               InDocument(lineNum) /\ lineNum \notin classifiedLines}]

\* the decorations applyHighlightsToEditor sets on the editor of filePath
HighlightsOfEditor(tr, data, filePath, hideClassified, index) ==
    LET coverage == IF data = Report THEN MatchTable[filePath]
                    ELSE findMatchingCoverage(filePath, data.files)
    IN  IF coverage = NotFound THEN NoHighlights
        ELSE applyHighlights(DocumentLines, filePath,
                             applyOffsetsToFile(tr.lineOffsets, filePath, coverage),
                             hideClassified, index)

RECURSIVE applyHighlightsToAllEditors(_, _, _)
applyHighlightsToAllEditors(tr, data, visible) ==
    IF visible = {} THEN tr
    ELSE LET editor == CHOOSE f \in visible : TRUE
         IN  applyHighlightsToAllEditors(applyHighlightsToEditor(tr, data, editor),
                                         data, visible \ {editor})

Tracker == [trackedFiles |-> trackedFiles, originalLines |-> originalLines,
            lineOffsets |-> lineOffsets, sharing |-> sharing]

\* the tracker when coverageData is assigned a new report: nothing shares
\* Sets with the new FileCoverage objects
TrackerOfNewReport == [Tracker EXCEPT !.sharing = {p \in @ : p[2] # "report"}]

\* the report after the Sets of the FileCoverage matched for filePath were
\* mutated in place to `lines`
WrittenThrough(data, filePath, lines) ==
    LET coverage == findMatchingCoverage(filePath, data.files)
    IN  IF coverage = NotFound THEN data
        ELSE [files |-> [i \in 1..Len(data.files) |->
                 IF data.files[i].fileName = coverage.fileName
                 THEN [fileName |-> coverage.fileName,
                       coveredLines |-> lines.coveredLines,
                       uncoveredLines |-> lines.uncoveredLines,
                       partialCoveredLines |-> lines.partialCoveredLines]
                 ELSE data.files[i]]]

SetTracker(tr) ==
    /\ trackedFiles' = tr.trackedFiles
    /\ originalLines' = tr.originalLines
    /\ lineOffsets' = tr.lineOffsets
    /\ sharing' = tr.sharing

ClearedTracker == [trackedFiles |-> EmptyMap, originalLines |-> EmptyMap,
                   lineOffsets |-> EmptyMap, sharing |-> {}]

Init ==
    /\ coverageData = NoData
    /\ trackedFiles = EmptyMap
    /\ originalLines = EmptyMap
    /\ lineOffsets = EmptyMap
    /\ sharing = {}
    /\ cacheFile = NoCache
    /\ saveTimeout = FALSE
    /\ timers = 0
    /\ commands = <<>>
    /\ reasons = <<>>
    /\ deactivated = FALSE
    /\ disposed = FALSE
    /\ edits = 0
    /\ last = Op("activate", <<>>, <<>>, <<>>)
    /\ classifications = <<>>
    /\ classificationIndex = EmptyMap
    /\ filePathCache = EmptyMap
    /\ workspaceFiles = {}
    /\ calls = NoCalls
    /\ resolved = EmptyMap
    /\ xmlFile = ReportDocument

\* loadXmlFile with `visible` the files of the visible editors
LoadXmlFile(visible) ==
    /\ Active
    /\ coverageData' = Report
    /\ SetTracker(applyHighlightsToAllEditors(TrackerOfNewReport, Report, visible))
    /\ cacheFile' = CacheOf(lineOffsets', classifications)
    /\ last' = Op("load", <<>>, ReportDocument.functionCoverage, <<>>)
    /\ UNCHANGED <<saveTimeout, timers, deactivated, disposed, edits, classVars, resolverVars, xmlFile, commands, reasons>>

\* onDidChangeActiveTextEditor / onDidOpenTextDocument for a visible editor
EditorShown(filePath) ==
    /\ Active
    /\ coverageData # NoData
    /\ SetTracker(applyHighlightsToEditor(Tracker, coverageData, filePath))
    /\ \E hideClassified \in BOOLEAN :
           last' = Op("show", filePath, <<>>,
                      HighlightsOfEditor(Tracker, coverageData, filePath,
                                         hideClassified, classificationIndex))
    /\ UNCHANGED <<extVars, classVars, resolverVars>>

\* debouncedSaveCache without clearTimeout
debouncedSaveCacheNoClear(armed, pending) == pending + 1

\* debouncedSaveCache: the timers pending after clearTimeout of the armed
\* one and setTimeout of a new one
debouncedSaveCache(armed, pending) == (IF armed THEN pending - 1 ELSE pending) + 1

\* onDidChangeTextDocument whose handler tracks a file on its first edit
\* instead of returning false
DocumentChangedNoGuard(filePath, contentChanges) ==
    /\ Active
    /\ edits + Len(contentChanges) <= MaxEdits
    /\ edits' = edits + Len(contentChanges)
    /\ IF coverageData = NoData
       THEN /\ UNCHANGED <<trackerVars, saveTimeout, timers>>
            /\ last' = Op("edit", filePath, contentChanges, FALSE)
       ELSE LET out == ChangeLoop([tracked |-> IF filePath \in DOMAIN trackedFiles
                                               THEN trackedFiles[filePath]
                                               ELSE [coveredLines |-> {},
                                                     uncoveredLines |-> {},
                                                     partialCoveredLines |-> {}],
                                   offsets |-> IF filePath \in DOMAIN lineOffsets
                                               THEN lineOffsets[filePath] ELSE EmptyMap,
                                   updated |-> FALSE,
                                   changed |-> FALSE],
                                  contentChanges)
            IN  /\ trackedFiles' = Put(trackedFiles, filePath, out.tracked)
                /\ lineOffsets' = IF out.updated
                                  THEN Put(lineOffsets, filePath, out.offsets)
                                  ELSE lineOffsets
                /\ saveTimeout' = (saveTimeout \/ out.changed)
                /\ timers' = IF out.changed THEN debouncedSaveCache(saveTimeout, timers)
                              ELSE timers
                /\ last' = Op("edit", filePath, contentChanges, out.changed)
                /\ UNCHANGED <<originalLines, sharing>>
    /\ UNCHANGED <<coverageData, cacheFile, deactivated, disposed, classVars, resolverVars, xmlFile, commands, reasons>>

\* onDidChangeTextDocument: handleDocumentChange mutates the Sets of the
\* tracked file in place
ChangeHandled(filePath, contentChanges) ==
    /\ Active
    /\ edits + Len(contentChanges) <= MaxEdits
    /\ edits' = edits + Len(contentChanges)
    /\ IF coverageData = NoData \/ filePath \notin DOMAIN trackedFiles
       THEN /\ UNCHANGED <<trackerVars, saveTimeout, timers, coverageData>>
            /\ last' = Op("edit", filePath, contentChanges, FALSE)
       ELSE LET out == handleDocumentChange(filePath, contentChanges)
            IN  /\ trackedFiles' = Put(trackedFiles, filePath, out.tracked)
                /\ lineOffsets' = IF out.updated
                                  THEN Put(lineOffsets, filePath, out.offsets)
                                  ELSE lineOffsets
                /\ saveTimeout' = (saveTimeout \/ out.changed)
                /\ timers' = IF out.changed THEN debouncedSaveCache(saveTimeout, timers)
                              ELSE timers
                /\ last' = Op("edit", filePath, contentChanges, out.changed)
                /\ originalLines' = IF <<filePath, "baseline">> \in sharing
                                    THEN Put(originalLines, filePath, out.tracked)
                                    ELSE originalLines
                /\ coverageData' = IF <<filePath, "report">> \in sharing
                                   THEN WrittenThrough(coverageData, filePath, out.tracked)
                                   ELSE coverageData
                /\ UNCHANGED sharing
    /\ UNCHANGED <<cacheFile, deactivated, disposed, resolverVars, xmlFile, commands, reasons>>

\* an onDidChangeTextDocument handler that also renumbers the classified
\* lines
DocumentChangedRenumbers(filePath, contentChanges) ==
    /\ ChangeHandled(filePath, contentChanges)
    /\ classifications' =
           [i \in 1..Len(classifications) |->
               [key |-> classifications[i].key,
                list |-> [j \in 1..Len(classifications[i].list) |->
                             [classifications[i].list[j] EXCEPT !.line = @ + 1]]]]
    /\ UNCHANGED classificationIndex

\* the handler calls the tracker, the highlighter and debouncedSaveCache
\* only
DocumentChanged(filePath, contentChanges) ==
    /\ ChangeHandled(filePath, contentChanges)
    /\ UNCHANGED classVars

\* the timer of debouncedSaveCache fires: saveCache
SaveTimerFired ==
    /\ timers > 0
    /\ timers' = timers - 1
    /\ saveTimeout' = (saveTimeout /\ timers > 1)
    /\ cacheFile' = CacheOf(lineOffsets, classifications)
    /\ last' = Op("save", <<>>, <<>>, <<>>)
    /\ UNCHANGED <<trackerVars, coverageData, deactivated, disposed, edits, classVars, resolverVars, xmlFile, commands, reasons>>

ClearCoverage ==
    /\ Active
    /\ coverageData' = NoData
    /\ SetTracker(ClearedTracker)
    /\ last' = Op("clear", <<>>, <<>>, <<>>)
    /\ UNCHANGED <<cacheFile, saveTimeout, timers, deactivated, disposed, edits, classVars, resolverVars, xmlFile, commands, reasons>>

\* LineTracker.resetFile without the deletion of the offsets
ResetFileKeepsOffsets(filePath) ==
    /\ Active
    /\ trackedFiles' = IF filePath \in DOMAIN originalLines
                       THEN Put(trackedFiles, filePath, originalLines[filePath])
                       ELSE trackedFiles
    /\ sharing' = IF filePath \in DOMAIN originalLines
                  THEN {p \in sharing : p[1] # filePath} ELSE sharing
    /\ last' = Op("reset", filePath, <<>>, <<>>)
    /\ UNCHANGED <<originalLines, lineOffsets, extVars, classVars, resolverVars>>

\* LineTracker.resetFile
ResetFile(filePath) ==
    /\ Active
    /\ trackedFiles' = IF filePath \in DOMAIN originalLines
                       THEN Put(trackedFiles, filePath, originalLines[filePath])
                       ELSE trackedFiles
    /\ lineOffsets' = Delete(lineOffsets, filePath)
    /\ sharing' = IF filePath \in DOMAIN originalLines
                  THEN {p \in sharing : p[1] # filePath} ELSE sharing
    /\ last' = Op("reset", filePath, <<>>, <<>>)
    /\ UNCHANGED <<originalLines, extVars, classVars, resolverVars>>

\* LineTracker.unregisterFile
UnregisterFile(filePath) ==
    /\ Active
    /\ trackedFiles' = Delete(trackedFiles, filePath)
    /\ originalLines' = Delete(originalLines, filePath)
    /\ lineOffsets' = Delete(lineOffsets, filePath)
    /\ sharing' = {p \in sharing : p[1] # filePath}
    /\ last' = Op("unregister", filePath, <<>>, <<>>)
    /\ UNCHANGED <<extVars, classVars, resolverVars>>

\* deactivate(): saveCache(), then lineTracker.clear()
Deactivate ==
    /\ ~deactivated
    /\ deactivated' = TRUE
    /\ cacheFile' = CacheOf(lineOffsets, classifications)
    /\ SetTracker(ClearedTracker)
    /\ last' = Op("deactivate", <<>>, <<>>, <<>>)
    /\ UNCHANGED <<coverageData, saveTimeout, timers, disposed, edits, classVars, resolverVars, xmlFile, commands, reasons>>

\* the dispose subscription of activate: lineTracker.clear(), then saveCache()
DisposeSubscriptions ==
    /\ ~disposed
    /\ disposed' = TRUE
    /\ SetTracker(ClearedTracker)
    /\ cacheFile' = CacheOf(EmptyMap, classifications)
    /\ last' = Op("dispose", <<>>, <<>>, <<>>)
    /\ UNCHANGED <<coverageData, saveTimeout, timers, deactivated, edits, classVars, resolverVars, xmlFile, commands, reasons>>

\* activate() in the next extension host process
Activate ==
    /\ deactivated /\ disposed
    /\ deactivated' = FALSE
    /\ disposed' = FALSE
    /\ coverageData' = NoData
    /\ saveTimeout' = FALSE
    /\ timers' = 0
    /\ commands' = <<>>
    /\ trackedFiles' = EmptyMap
    /\ originalLines' = EmptyMap
    /\ sharing' = {}
    /\ lineOffsets' = IF cacheFile = NoCache THEN EmptyMap
                      ELSE importOffsets(EmptyMap, cacheFile.lineOffsets)
    /\ classificationIndex' = rebuildIndex(classifications)
    /\ last' = Op("activate", <<>>, <<>>, <<>>)
    /\ UNCHANGED <<cacheFile, edits, classifications, workspaceFiles, xmlFile, reasons>>
    /\ filePathCache' = EmptyMap
    /\ calls' = NoCalls
    /\ resolved' = EmptyMap

\* one session of the extension host
Next ==
    \/ \E visible \in SUBSET LocalFiles : LoadXmlFile(visible)
    \/ \E f \in LocalFiles : EditorShown(f)
    \/ \E f \in LocalFiles : \E ev \in EventsOf(MaxEdits - edits) : DocumentChanged(f, ev)
    \/ \E f \in LocalFiles : ResetFile(f)
    \/ \E f \in LocalFiles : UnregisterFile(f)
    \/ SaveTimerFired
    \/ ClearCoverage

Spec == Init /\ [][Next]_vars

\* sessions, shutdowns and restarts; the events carry one change
LifeEvents == {<<ChangeOf(c)>> : c \in {x \in Changes : x.start = 10}}

NextLife ==
    \/ \E visible \in SUBSET LocalFiles : LoadXmlFile(visible)
    \/ \E f \in LocalFiles : EditorShown(f)
    \/ \E f \in LocalFiles : \E ev \in LifeEvents : DocumentChanged(f, ev)
    \/ SaveTimerFired
    \/ ClearCoverage
    \/ Deactivate
    \/ DisposeSubscriptions
    \/ Activate

SpecLife == Init /\ [][NextLife]_vars

\* one session whose events carry one change; the event loop runs the
\* callback of a timer that stays pending
NextDebounce ==
    \/ \E visible \in SUBSET LocalFiles : LoadXmlFile(visible)
    \/ \E f \in LocalFiles : EditorShown(f)
    \/ \E f \in LocalFiles : \E ev \in LifeEvents : DocumentChanged(f, ev)
    \/ \E f \in LocalFiles : ResetFile(f)
    \/ \E f \in LocalFiles : UnregisterFile(f)
    \/ SaveTimerFired
    \/ ClearCoverage

SpecDebounce == Init /\ [][NextDebounce]_vars /\ WF_vars(SaveTimerFired)

(***************************************************************************)
(* The classification store in use: classifyLine, removeClassification and *)
(* clearAll mutate the Map and the index before their first await, so each *)
(* is one step.                                                            *)
(***************************************************************************)
ClassPaths == {ReportPath, LocalPath5, LocalPath4}
ClassLines == {42, 43}
\* the <<path, line>> pairs that are classified, removed and looked up
ClassTargets == {<<ReportPath, 42>>, <<LocalPath5, 42>>, <<LocalPath4, 42>>,
                 <<ReportPath, 43>>}
ClassKeys == {<<"document", "ui">>, <<"comment-planned", "">>}

RECURSIVE CountEntries(_)
CountEntries(groups) ==
    IF groups = <<>> THEN 0 ELSE Len(Head(groups).list) + CountEntries(Tail(groups))

ClassifyLine(filePath, line, category, reason) ==
    LET out == classifyLine(classifications, classificationIndex,
                            filePath, line, category, reason)
    IN  /\ CountEntries(out.groups) <= MaxEntries
        /\ classifications' = out.groups
        /\ classificationIndex' = out.index
        /\ last' = Op("classify", filePath,
                      [line |-> line, category |-> category, reason |-> reason],
                      out.groups # classifications)
        /\ UNCHANGED <<trackerVars, extVars, resolverVars>>

RemoveClassification(filePath, line) ==
    LET out == removeClassification(classifications, classificationIndex, filePath, line)
    IN  /\ classifications' = out.groups
        /\ classificationIndex' = out.index
        /\ last' = Op("remove", filePath, line, <<>>)
        /\ UNCHANGED <<trackerVars, extVars, resolverVars>>

\* clearAll: this.classifications.clear()
ClearAll ==
    /\ classifications' = <<>>
    /\ UNCHANGED classificationIndex
    /\ last' = Op("clearAll", <<>>, <<>>, <<>>)
    /\ UNCHANGED <<trackerVars, extVars, resolverVars>>

\* the constructor in the next session: loadClassifications, rebuildIndex
Reload ==
    /\ classificationIndex' = rebuildIndex(classifications)
    /\ UNCHANGED classifications
    /\ last' = Op("reload", <<>>, <<>>, <<>>)
    /\ UNCHANGED <<trackerVars, extVars, resolverVars>>

NextClass ==
    \/ \E t \in ClassTargets, k \in ClassKeys : ClassifyLine(t[1], t[2], k[1], k[2])
    \/ \E t \in ClassTargets : RemoveClassification(t[1], t[2])
    \/ ClearAll
    \/ Reload

SpecClass == Init /\ [][NextClass]_vars

\* a store that has only been classified into
NextBuild ==
    \E t \in ClassTargets, k \in ClassKeys : ClassifyLine(t[1], t[2], k[1], k[2])

SpecBuild == Init /\ [][NextBuild]_vars

(***************************************************************************)
(* The commands of extension.ts that change the classification store or    *)
(* the list of reasons.  A handler runs until it awaits the host: a prompt *)
(* the user answers, or globalState.update of saveClassifications and      *)
(* saveReasons.  The handler is then kept in `commands`, and the callbacks *)
(* of edits, editors, timers and other commands run until the host         *)
(* answers.  An await of a promise that is settled already (classifyLine   *)
(* of an entry that exists, saveCache) lets no callback in.                *)
(***************************************************************************)
\* handlers that wait at the same time
MaxCommands == 1
\* reasons in the list
MaxReasons == 1

\* undefined of a dismissed prompt, and the empty text of an input box
Dismissed == ""
\* the button of a warning that deletes
Confirmed == "delete"
\* the text typed in showInputBox
NewReasonText == "ui"
\* the values of the category quick pick that are chosen
PickedCategories == {"document", "comment-planned"}

\* the argument of a tree command: undefined, or an item of the tree view;
\* `lines` is read for the items of type 'unclassified-line' only, which
\* all have it
NoItem == [undefined |-> TRUE]
TreeItem(type, filePath, line, lines) ==
    [type |-> type, filePath |-> filePath, line |-> line, lines |-> lines]

\* vscode.window.activeTextEditor: undefined, or an editor with the
\* 1-based first and last line of its selection and the line of the cursor
NoEditor == [undefined |-> TRUE]
TextEditor(filePath, startLine, endLine, line) ==
    [filePath |-> filePath, startLine |-> startLine, endLine |-> endLine, line |-> line]

\* config.get of a quick slot: undefined, or a category and a reason
NoSlot == [undefined |-> TRUE]
SlotConfig(category, reason) == [category |-> category, reason |-> reason]

\* item && item.filePath && item.line
HasLine(item) == item # NoItem /\ item.filePath # <<>> /\ item.line # 0

\* the filter of bulkRemoveClassification and bulkEditClassification over
\* the selection of the tree view; an item of type 'line' carries its
\* category
IsClassifiedItem(item) == item.type = "line" /\ item.filePath # <<>> /\ item.line # 0

\* the filter of bulkClassify
IsUnclassifiedItem(item) == item.type = "unclassified-line" /\ item.filePath # <<>>

\* a call of the classification manager a handler has still to make
StoreOp(kind, filePath, line) == [kind |-> kind, filePath |-> filePath, line |-> line]

\* the calls classifyLines(filePath, lines, ...) makes
ClassifyCalls(filePath, lines) ==
    [k \in 1..Len(lines) |-> StoreOp("classify", filePath, lines[k])]

\* a handler: the function it runs, what it waits for, the calls left, the
\* category and the reason its classifyLines calls are made with (in
\* manageReasons the id of the reason picked), and the values of the
\* reasons the quick pick it waits at offers: labels, in manageReasons ids
Handler(cmd, wait, todo, category, reason) ==
    [cmd |-> cmd, wait |-> wait, todo |-> todo, category |-> category,
     reason |-> reason, offered |-> {}]

\* how a handler ends: with applyHighlightsToAllEditors() and saveCache(),
\* with saveCache() only, or with neither
EndOf(cmd) ==
    CASE cmd \in {"removeClassification", "classifyLines",
                  "quickClassifyWithReasonPrompt", "quickClassifyDirect"} -> "save"
      [] cmd = "manageReasons" -> "none"
      [] OTHER -> "apply"

\* a ReasonItem
ReasonItem(id, label) == [id |-> id, label |-> label]

\* the labels and the ids of getReasons()
LabelsOf(rs) == {rs[k].label : k \in 1..Len(rs)}
IdsOf(rs) == {rs[k].id : k \in 1..Len(rs)}

\* the ids `custom-${Date.now()}` of calls of addReason at different times
ReasonIds == <<"custom-1", "custom-2", "custom-3", "custom-4", "custom-5">>

\* ids are compared for equality only: the id of the next addReason is
\* the first one that no reason has and no waiting handler has been
\* offered or has picked
FreeIds ==
    LET held == UNION {commands[i].offered \cup {commands[i].reason} :
                          i \in 1..Len(commands)}
    IN  {k \in 1..Len(ReasonIds) : ReasonIds[k] \notin IdsOf(reasons) \cup held}
NextReasonId == ReasonIds[CHOOSE k \in FreeIds : \A j \in FreeIds : k <= j]

\* ClassificationManager.addReason without its await of saveReasons
addReason(rs, id, label) == Append(rs, ReasonItem(id, label))

\* the answers to the prompt the handler h waits at
AnswersOf(h) ==
    CASE h.wait = "confirm" -> {Confirmed, "cancel", Dismissed}
      [] h.wait = "category" -> PickedCategories \cup {Dismissed}
      [] h.wait = "reason" ->
             h.offered \cup {Dismissed}
                 \cup (IF h.cmd = "quickClassifyWithReasonPrompt" THEN {} ELSE {"__new__"})
      [] h.wait = "input" -> {NewReasonText, Dismissed}
      [] h.wait = "manage" -> h.offered \cup {"__add__", Dismissed}
      [] OTHER -> {}

\* the calls of the manager from the head of todo on, up to and including
\* the first one that awaits globalState.update: removeClassification
\* always does, classifyLine when it has pushed an entry
RECURSIVE RunToAwait(_, _, _, _, _)
RunToAwait(groups, index, todo, category, reason) ==
    IF todo = <<>>
    THEN [groups |-> groups, index |-> index, todo |-> <<>>, done |-> TRUE]
    ELSE LET call == Head(todo)
             out == IF call.kind = "remove"
                    THEN removeClassification(groups, index, call.filePath, call.line)
                    ELSE classifyLine(groups, index, call.filePath, call.line,
                                      category, reason)
         IN  IF call.kind = "classify" /\ out.groups = groups
             THEN RunToAwait(groups, index, Tail(todo), category, reason)
             ELSE [groups |-> out.groups, index |-> out.index,
                   todo |-> Tail(todo), done |-> FALSE]

\* `commands` when the handler at position i (0: a handler that starts) waits as h
Waiting(i, h) == IF i = 0 THEN Append(commands, h) ELSE [commands EXCEPT ![i] = h]
\* `commands` when the handler at position i has returned
Returned(i) == IF i = 0 THEN commands ELSE Splice(commands, i)

\* the result of a step of a handler: whether it has written the cache file
StepResult(saved) == [saved |-> saved]

\* a step of a handler that changes nothing but `commands` and the reasons
Yield(cmds, rs) ==
    /\ commands' = cmds
    /\ reasons' = rs
    /\ last' = Op("command", <<>>, <<>>, StepResult(FALSE))
    /\ UNCHANGED <<trackerVars, classVars, resolverVars, coverageData, cacheFile,
                   saveTimeout, timers, deactivated, disposed, edits, xmlFile>>

\* the handler h at position i makes its calls of the manager: it waits at
\* the first globalState.update, or it ends
Proceed(i, h, visible) ==
    LET out == RunToAwait(classifications, classificationIndex, h.todo,
                          h.category, h.reason)
        tr == IF EndOf(h.cmd) = "apply" /\ coverageData # NoData
              THEN applyHighlightsToAllEditors(Tracker, coverageData, visible)
              ELSE Tracker
    IN  /\ CountEntries(out.groups) <= MaxEntries
        /\ classifications' = out.groups
        /\ classificationIndex' = out.index
        /\ IF out.done
           THEN /\ SetTracker(tr)
                /\ cacheFile' = IF EndOf(h.cmd) = "none" THEN cacheFile
                                ELSE CacheOf(tr.lineOffsets, out.groups)
                /\ commands' = Returned(i)
           ELSE /\ UNCHANGED <<trackerVars, cacheFile>>
                /\ commands' = Waiting(i, [h EXCEPT !.wait = "update", !.todo = out.todo])
        /\ last' = Op("command", <<>>, <<>>,
                      StepResult(out.done /\ EndOf(h.cmd) # "none"))
        /\ UNCHANGED <<resolverVars, coverageData, saveTimeout, timers, deactivated,
                       disposed, edits, xmlFile, reasons>>

MayStart == Active /\ Len(commands) < MaxCommands

\* a handler that starts by asking, or returns at its guard
Asks(met, h) == Yield(IF met THEN Waiting(0, h) ELSE commands, reasons)

\* the command classifyFromTreeWithReason, with `visible` the files of the
\* editors that are visible when it ends
ClassifyFromTreeWithReason(visible, filePath, line, category, reason, lines) ==
    LET targetLines == IF Len(lines) > 0 THEN lines ELSE <<line>>
        todo == ClassifyCalls(filePath, targetLines)
    IN  /\ MayStart
        /\ IF reason = "__new__"
           THEN Asks(TRUE, Handler("classifyFromTreeWithReason", "input", todo,
                                   category, reason))
           ELSE Proceed(0, Handler("classifyFromTreeWithReason", "update", todo,
                                   category, reason),
                        visible)

\* the command removeClassification
RemoveClassificationCommand(item) ==
    /\ MayStart
    /\ IF HasLine(item)
       THEN Proceed(0, Handler("removeClassification", "update",
                               <<StoreOp("remove", item.filePath, item.line)>>, "", ""),
                    {})
       ELSE Asks(FALSE, <<>>)

\* the command bulkRemoveClassification over the selection of the tree view
BulkRemoveClassification(selection) ==
    LET classifiedItems == SelectSeq(selection, IsClassifiedItem)
        todo == [k \in 1..Len(classifiedItems) |->
                    StoreOp("remove", classifiedItems[k].filePath, classifiedItems[k].line)]
    IN  /\ MayStart
        /\ Asks(classifiedItems # <<>>,
                Handler("bulkRemoveClassification", "confirm", todo, "", ""))

\* removeClassification, then classifyLines, of every item
EditCalls(items) ==
    [k \in 1..(2 * Len(items)) |->
        IF k % 2 = 1 THEN StoreOp("remove", items[(k + 1) \div 2].filePath,
                                  items[(k + 1) \div 2].line)
        ELSE StoreOp("classify", items[k \div 2].filePath, items[k \div 2].line)]

\* the command bulkEditClassification over the selection of the tree view
BulkEditClassification(selection) ==
    LET classifiedItems == SelectSeq(selection, IsClassifiedItem)
    IN  /\ MayStart
        /\ Asks(classifiedItems # <<>>,
                Handler("bulkEditClassification", "category",
                        EditCalls(classifiedItems), "", ""))

\* the command editClassification
EditClassification(item) ==
    /\ MayStart
    /\ Asks(HasLine(item),
            Handler("editClassification", "category",
                    IF HasLine(item) THEN EditCalls(<<item>>) ELSE <<>>, "", ""))

\* classifyLines(filePath, lines) of extension.ts
classifyLines(filePath, lines) ==
    Asks(TRUE, Handler("classifyLines", "category", ClassifyCalls(filePath, lines), "", ""))

\* the command classifyLine: classifyCurrentLine
ClassifyCurrentLine(editor) ==
    /\ MayStart
    /\ IF editor = NoEditor THEN Asks(FALSE, <<>>)
       ELSE classifyLines(editor.filePath,
                          getUncoveredBlock(trackedFiles, editor.filePath, editor.line))

\* Array.from(set).sort((a, b) => a - b)
RECURSIVE SortedLines(_)
SortedLines(set) ==
    IF set = {} THEN <<>>
    ELSE LET least == CHOOSE n \in set : \A m \in set : n <= m
         IN  <<least>> \o SortedLines(set \ {least})

\* the command classifySelection: classifySelectedLines
ClassifySelectedLines(editor) ==
    /\ MayStart
    /\ IF editor = NoEditor THEN Asks(FALSE, <<>>)
       ELSE LET blockOf(i) == getUncoveredBlock(trackedFiles, editor.filePath, i)
                allBlockLines == UNION {{blockOf(i)[k] : k \in 1..Len(blockOf(i))} :
                                           i \in editor.startLine..editor.endLine}
            IN  classifyLines(editor.filePath, SortedLines(allBlockLines))

\* the command classifyFromTree: classifyLinesFromTree
ClassifyFromTree(item) ==
    /\ MayStart
    /\ IF HasLine(item) THEN classifyLines(item.filePath, <<item.line>>)
       ELSE Asks(FALSE, <<>>)

\* the calls of bulkClassify: classifyLines of the lines of every item
RECURSIVE BulkCalls(_)
BulkCalls(items) ==
    IF items = <<>> THEN <<>>
    ELSE ClassifyCalls(Head(items).filePath, Head(items).lines) \o BulkCalls(Tail(items))

\* the command bulkClassify over the selection of the tree view
BulkClassify(selection) ==
    LET unclassifiedItems == SelectSeq(selection, IsUnclassifiedItem)
    IN  /\ MayStart
        /\ Asks(unclassifiedItems # <<>>,
                Handler("bulkClassify", "category", BulkCalls(unclassifiedItems), "", ""))

\* a handler that asks for the reason of the category 'document': with the
\* input box when there is no reason yet, with the quick pick otherwise
AsksReason(h) ==
    Asks(TRUE, IF reasons = <<>> THEN [h EXCEPT !.wait = "input"]
               ELSE [h EXCEPT !.wait = "reason", !.offered = LabelsOf(reasons)])

\* the commands of the quick slots: executeQuickSlot, then
\* quickClassifyWithReasonPrompt or quickClassifyDirect
ExecuteQuickSlot(slotConfig, editor) ==
    /\ MayStart
    /\ IF slotConfig = NoSlot \/ slotConfig.category = "" \/ editor = NoEditor
       THEN Asks(FALSE, <<>>)
       ELSE LET blockLines == getUncoveredBlock(trackedFiles, editor.filePath,
                                                editor.line)
                todo == ClassifyCalls(editor.filePath, blockLines)
            IN  IF slotConfig.category = "document" /\ slotConfig.reason = ""
                THEN AsksReason(Handler("quickClassifyWithReasonPrompt", "reason", todo,
                                        "document", ""))
                ELSE Proceed(0, Handler("quickClassifyDirect", "update", todo,
                                        slotConfig.category, slotConfig.reason),
                             {})

\* the command quickClassifyFromTreeDocument:
\* quickClassifyFromTreeWithCategory with 'document'
QuickClassifyFromTreeDocument(item) ==
    /\ MayStart
    /\ IF HasLine(item)
       THEN AsksReason(Handler("quickClassifyFromTreeWithCategory", "reason",
                               ClassifyCalls(item.filePath, <<item.line>>),
                               "document", ""))
       ELSE Asks(FALSE, <<>>)

\* the commands quickClassifyFromTreeComment and quickClassifyFromTreeCover:
\* quickClassifyFromTreeDirect
QuickClassifyFromTreeDirect(visible, item, category) ==
    /\ MayStart
    /\ IF HasLine(item)
       THEN Proceed(0, Handler("quickClassifyFromTreeDirect", "update",
                               ClassifyCalls(item.filePath, <<item.line>>), category, ""),
                    visible)
       ELSE Asks(FALSE, <<>>)

\* the command manageReasons
ManageReasons ==
    /\ MayStart
    /\ Asks(TRUE, [Handler("manageReasons", "manage", <<>>, "", "")
                      EXCEPT !.offered = IdsOf(reasons)])

\* ClassificationManager.removeReason without its await of saveReasons
removeReason(rs, id) == SelectSeq(rs, LAMBDA r : r.id # id)

\* the user answers the prompt the handler at position i waits at
PromptAnswered(i, answer, visible) ==
    /\ i \in 1..Len(commands)
    /\ answer \in AnswersOf(commands[i])
    /\ LET h == commands[i]
       IN  CASE answer = Dismissed \/ (h.wait = "confirm" /\ answer # Confirmed) ->
                    Yield(Returned(i), reasons)
             [] h.wait = "category" /\ answer = "document" ->
                    Yield(Waiting(i, [h EXCEPT !.wait = "reason", !.category = answer,
                                               !.offered = LabelsOf(reasons)]),
                          reasons)
             [] h.wait = "category" /\ answer # "document" ->
                    Proceed(i, [h EXCEPT !.category = answer, !.reason = ""], visible)
             [] h.wait = "manage" /\ answer = "__add__" ->
                    Yield(Waiting(i, [h EXCEPT !.wait = "input"]), reasons)
             [] h.wait = "manage" /\ answer # "__add__" ->
                    Yield(Waiting(i, [h EXCEPT !.wait = "confirm", !.reason = answer]),
                          reasons)
             [] h.wait = "reason" /\ answer = "__new__" ->
                    Yield(Waiting(i, [h EXCEPT !.wait = "input"]), reasons)
             [] h.wait = "reason" /\ answer # "__new__" ->
                    Proceed(i, [h EXCEPT !.reason = answer], visible)
             \* addReason, which awaits globalState.update in saveReasons
             [] h.wait = "input" ->
                    /\ Len(reasons) < MaxReasons
                    /\ FreeIds # {}
                    /\ Yield(Waiting(i, [h EXCEPT !.wait = "update", !.reason = answer]),
                             addReason(reasons, NextReasonId, answer))
             \* removeReason, which awaits globalState.update in saveReasons
             [] h.wait = "confirm" /\ h.cmd = "manageReasons" ->
                    Yield(Waiting(i, [h EXCEPT !.wait = "update"]),
                          removeReason(reasons, h.reason))
             [] h.wait = "confirm" /\ h.cmd # "manageReasons" ->
                    Proceed(i, h, visible)

\* the host answers the globalState.update the handler at position i waits at
UpdateAnswered(i, visible) ==
    /\ i \in 1..Len(commands)
    /\ commands[i].wait = "update"
    /\ Proceed(i, commands[i], visible)

\* a session in which uncovered lines of a shown file are classified,
\* reclassified and removed while the file is edited; the calls of
\* classifyFromTreeWithReason as <<filePath, line, reason, lines>>
DriftCalls == {<<LocalPath4, 11, "ui", <<>>>>, <<LocalPath4, 11, "ui", <<11, 12>>>>,
               <<LocalPath4, 11, "__new__", <<>>>>}
DriftItems == {NoItem, TreeItem("line", LocalPath4, 11, <<>>),
               TreeItem("line", LocalPath4, 0, <<>>)}
DriftSelections == {<<>>,
                    <<TreeItem("unclassified-line", LocalPath4, 11, <<11>>),
                      TreeItem("line", LocalPath4, 11, <<>>)>>}
DriftEditors == {NoEditor, TextEditor(LocalPath4, 11, 11, 11)}
DriftSlots == {NoSlot, SlotConfig("document", ""), SlotConfig("comment-planned", "")}
\* the events of the session: a line inserted after line 11, and line 11
\* joined with line 12
DriftEvents == {<<[start |-> 10, end |-> 10, newlines |-> 1]>>,
                <<[start |-> 10, end |-> 11, newlines |-> 0]>>}
DriftAnswers == {Confirmed, "cancel", Dismissed, NewReasonText, "__new__", "__add__"}
                    \cup PickedCategories \cup {ReasonIds[k] : k \in 1..Len(ReasonIds)}

NextDrift ==
    \/ LoadXmlFile({LocalPath4})
    \/ \E ev \in DriftEvents : DocumentChanged(LocalPath4, ev)
    \/ \E c \in DriftCalls :
           ClassifyFromTreeWithReason({LocalPath4}, c[1], c[2], "document", c[3], c[4])
    \/ \E item \in DriftItems : RemoveClassificationCommand(item)
    \/ \E selection \in DriftSelections : BulkRemoveClassification(selection)
    \/ \E item \in DriftItems : EditClassification(item)
    \/ \E selection \in DriftSelections : BulkEditClassification(selection)
    \/ \E editor \in DriftEditors : ClassifyCurrentLine(editor)
    \/ \E editor \in DriftEditors : ClassifySelectedLines(editor)
    \/ \E item \in DriftItems : ClassifyFromTree(item)
    \/ \E selection \in DriftSelections : BulkClassify(selection)
    \/ \E slotConfig \in DriftSlots, editor \in DriftEditors :
           ExecuteQuickSlot(slotConfig, editor)
    \/ \E item \in DriftItems : QuickClassifyFromTreeDocument(item)
    \/ \E item \in DriftItems :
           QuickClassifyFromTreeDirect({LocalPath4}, item, "comment-planned")
    \/ ManageReasons
    \/ \E i \in 1..MaxCommands, answer \in DriftAnswers :
           PromptAnswered(i, answer, {LocalPath4})
    \/ \E i \in 1..MaxCommands : UpdateAnswered(i, {LocalPath4})
    \/ SaveTimerFired

SpecDrift == Init /\ [][NextDrift]_vars

(***************************************************************************)
(* Path resolution in use: the goToLine command calls                      *)
(* findLocalFilePathAsync, calls overlap, and the files of the workspace   *)
(* come and go while the extension runs.                                   *)
(***************************************************************************)
\* a report path that ends in a separator: its file name is empty
ReportDir == <<"C:", "/", "build", "/">>
ResolvePaths == {ReportPath, ReportDir}
\* the files that can exist in the workspace
WorkspacePool == {LocalPath4, LocalPath2}

\* a call returns `result` for coverageFilePath
Completed(coverageFilePath, matchDepth, result) ==
    /\ last' = Op("resolved", coverageFilePath, matchDepth, result)
    /\ resolved' = IF coverageFilePath \in DOMAIN resolved THEN resolved
                   ELSE Put(resolved, coverageFilePath, result)

\* findLocalFilePathAsync(coverageFilePath) is called
StartResolve(c, coverageFilePath) ==
    /\ Active
    /\ calls[c].pc = "idle"
    /\ LET out == AsyncEntry(filePathCache, coverageFilePath)
       IN  /\ filePathCache' = out.cache
           /\ IF out.searching
              THEN /\ calls' = [calls EXCEPT ![c] =
                         [pc |-> "search", path |-> coverageFilePath,
                          depth |-> DefaultDepth]]
                   /\ last' = Op("resolve", coverageFilePath, DefaultDepth, <<>>)
                   /\ UNCHANGED resolved
              ELSE /\ UNCHANGED calls
                   /\ Completed(coverageFilePath, DefaultDepth, out.found)
    /\ UNCHANGED <<trackerVars, extVars, classVars, workspaceFiles>>

\* the rest of a call once out == AsyncResume or AsyncCatch has run
Resumed(c, out) ==
    /\ filePathCache' = out.cache
    /\ IF out.searching
       THEN /\ calls' = [calls EXCEPT ![c].depth = out.depth]
            /\ last' = Op("search", calls[c].path, out.depth, <<>>)
            /\ UNCHANGED resolved
       ELSE /\ calls' = [calls EXCEPT ![c] = IdleCall]
            /\ Completed(calls[c].path, out.depth, out.found)
    /\ UNCHANGED <<trackerVars, extVars, classVars, workspaceFiles>>

\* findFiles returns to call c
ResumeSearch(c) ==
    /\ calls[c].pc = "search"
    /\ LET path == calls[c].path
           depth == calls[c].depth
           hits == SuffixHits(findFiles(workspaceFiles, FileNameOf(path)), path, depth)
       IN  IF hits = {}
           THEN Resumed(c, AsyncResume(filePathCache, path, depth, hits, NoPath))
           ELSE \E first \in hits :
                   Resumed(c, AsyncResume(filePathCache, path, depth, hits, first))

\* the import or findFiles of call c rejects
SearchThrows(c) ==
    /\ calls[c].pc = "search"
    /\ Resumed(c, AsyncCatch(filePathCache, calls[c].path, calls[c].depth))

\* findLocalFilePath(coverageFilePath)
LookupPath(coverageFilePath) ==
    /\ Active
    /\ last' = Op("lookup", coverageFilePath, <<>>,
                  findLocalFilePath(filePathCache, coverageFilePath))
    /\ UNCHANGED <<trackerVars, extVars, classVars, resolverVars>>

\* a file appears in the workspace
CreateFile(f) ==
    /\ f \notin workspaceFiles
    /\ workspaceFiles' = workspaceFiles \cup {f}
    /\ last' = Op("create", f, <<>>, <<>>)
    /\ UNCHANGED <<trackerVars, extVars, classVars, filePathCache, calls, resolved>>

\* a file of the workspace is deleted
DeleteFile(f) ==
    /\ f \in workspaceFiles
    /\ workspaceFiles' = workspaceFiles \ {f}
    /\ last' = Op("delete", f, <<>>, <<>>)
    /\ UNCHANGED <<trackerVars, extVars, classVars, filePathCache, calls, resolved>>

\* clearFilePathCache(): the resolutions completed before it are forgotten
ClearFilePathCache ==
    /\ Active
    /\ filePathCache' = EmptyMap
    /\ resolved' = EmptyMap
    /\ last' = Op("clearCache", <<>>, <<>>, <<>>)
    /\ UNCHANGED <<trackerVars, extVars, classVars, workspaceFiles, calls>>

NextResolve ==
    \/ \E c \in 1..MaxCalls, p \in ResolvePaths : StartResolve(c, p)
    \/ \E c \in 1..MaxCalls : ResumeSearch(c)
    \/ \E c \in 1..MaxCalls : SearchThrows(c)
    \/ \E p \in ResolvePaths : LookupPath(p)
    \/ \E f \in WorkspacePool : CreateFile(f)
    \/ \E f \in WorkspacePool : DeleteFile(f)
    \/ LoadXmlFile({})
    \/ ClearCoverage
    \/ ClearFilePathCache

SpecResolve == Init /\ [][NextResolve]_vars

(***************************************************************************)
(* findMatchingCoverage on its own: local paths against reports of up to   *)
(* MaxFiles files.                                                         *)
(***************************************************************************)
MaxFiles == 2

\* a file in the root directory: one segment
RootFile == <<"/", "file.c">>
\* report paths: another module with the same file name, a relative path of
\* two segments, a bare file name
ReportOther == <<"C:", "/", "build", "/", "other", "/", "file.c">>
ReportRelative == <<"mod", "/", "file.c">>
BareName == <<"file.c">>

\* a local path of two segments
LocalShort == <<"/", "mod", "/", "file.c">>

MatchLocals == {LocalPath5, LocalPath4, LocalPath2, LocalPath1, RootFile, LocalShort}
MatchReports == {ReportPath, ReportPathB, ReportOther, ReportRelative, BareName}

CoverageOf(path) == [fileName |-> path, coveredLines |-> {1},
                     uncoveredLines |-> {2}, partialCoveredLines |-> {}]

\* the values of a Map of up to MaxFiles files, in insertion order
ReportsOf(n) ==
    {<<>>} \cup
    UNION {{[i \in 1..k |-> CoverageOf(ps[i])] :
              ps \in {q \in [1..k -> MatchReports] :
                         \A i \in 1..k, j \in 1..k : q[i] = q[j] => i = j}} :
           k \in 1..n}

\* findMatchingCoverage(localFilePath, coverageFiles) is called
MatchCoverage(localFilePath, coverageFiles) ==
    /\ last' = Op("match", localFilePath, coverageFiles,
                  findMatchingCoverage(localFilePath, coverageFiles))
    /\ UNCHANGED <<trackerVars, extVars, classVars, resolverVars>>

NextMatch ==
    \E f \in MatchLocals, files \in ReportsOf(MaxFiles) : MatchCoverage(f, files)

SpecMatch == Init /\ [][NextMatch]_vars

(***************************************************************************)
(* getUncoveredBlock on its own: a report whose file has any uncovered and *)
(* partial lines of BlockPool is loaded with the file visible, and blocks  *)
(* are asked for.                                                          *)
(***************************************************************************)
\* lines past line 20 that a report marks
MaxRun == 3
BlockPool == {1, 2} \cup (20..(20 + MaxRun))
QueryLines == {1, 2, 3} \cup (19..(21 + MaxRun))

BlockReport(uncovered, partial) ==
    [files |-> <<[fileName |-> ReportPath, coveredLines |-> {},
                  uncoveredLines |-> uncovered, partialCoveredLines |-> partial]>>]

\* the state after activate and loadXmlFile with LocalPath4 visible
InitBlock ==
    \E uncovered \in SUBSET BlockPool :
      \E partial \in SUBSET (BlockPool \ uncovered) :
        LET data == BlockReport(uncovered, partial)
            tr == applyHighlightsToEditor(ClearedTracker, data, LocalPath4)
        IN  /\ coverageData = data
            /\ trackedFiles = tr.trackedFiles
            /\ originalLines = tr.originalLines
            /\ lineOffsets = tr.lineOffsets
            /\ sharing = tr.sharing
            /\ cacheFile = CacheOf(tr.lineOffsets, <<>>)
            /\ saveTimeout = FALSE
            /\ timers = 0
            /\ commands = <<>>
            /\ reasons = <<>>
            /\ deactivated = FALSE
            /\ disposed = FALSE
            /\ edits = 0
            /\ last = Op("load", <<>>, <<>>, <<>>)
            /\ classifications = <<>>
            /\ classificationIndex = EmptyMap
            /\ filePathCache = EmptyMap
            /\ workspaceFiles = {}
            /\ calls = NoCalls
            /\ resolved = EmptyMap
            /\ xmlFile = ReportDocument

\* lineTracker.getUncoveredBlock(filePath, line)
GetUncoveredBlock(filePath, line) ==
    /\ last' = Op("block", filePath, line, getUncoveredBlock(trackedFiles, filePath, line))
    /\ UNCHANGED <<trackerVars, extVars, classVars, resolverVars>>

NextBlock ==
    \E f \in LocalFiles, line \in QueryLines : GetUncoveredBlock(f, line)

SpecBlock == InitBlock /\ [][NextBlock]_vars

(***************************************************************************)
(* Restarts from a cache file that holds offsets: the file a debounced     *)
(* saveCache wrote in a session that ended without deactivate and without  *)
(* the disposal of its subscriptions.  globalState holds the               *)
(* classifications that session saved.                                     *)
(***************************************************************************)
RoundLines == {5, 11}
RoundDeltas == {-1, 2}

\* the offset Maps updateOffsets can have left for one file
RoundMaps == UNION {[lines -> RoundDeltas] : lines \in (SUBSET RoundLines) \ {{}}}

\* LineTracker.lineOffsets at the time of the save
RoundOffsets == UNION {[files -> RoundMaps] : files \in SUBSET LocalFiles}

RoundGroups == {<<>>, classifyLine(<<>>, EmptyMap, ReportPath, 42, "document", "ui").groups}

InitRound ==
    \E allOffsets \in RoundOffsets, groups \in RoundGroups :
        /\ cacheFile = CacheOf(allOffsets, groups)
        /\ classifications = groups
        /\ classificationIndex = EmptyMap
        /\ coverageData = NoData
        /\ trackedFiles = EmptyMap
        /\ originalLines = EmptyMap
        /\ lineOffsets = EmptyMap
        /\ sharing = {}
        /\ saveTimeout = FALSE
        /\ timers = 0
        /\ commands = <<>>
        /\ reasons = <<>>
        /\ deactivated = TRUE
        /\ disposed = TRUE
        /\ edits = 0
        /\ last = Op("exit", <<>>, <<>>, <<>>)
        /\ filePathCache = EmptyMap
        /\ workspaceFiles = {}
        /\ calls = NoCalls
        /\ resolved = EmptyMap
        /\ xmlFile = ReportDocument

NextRound ==
    \/ Activate
    \/ Deactivate
    \/ DisposeSubscriptions

SpecRound == InitRound /\ [][NextRound]_vars

(***************************************************************************)
(* Reports as the parser reads them: loadXmlFile on a file whose root      *)
(* holds up to MaxFunctions functionCoverage records.                      *)
(***************************************************************************)
MaxFunctions == 2

\* ReportPath in another spelling: equal after normalizePath, another string
ReportPathAlt == <<"C:", "\\", "Build", "\\", "src", "\\", "pkg", "\\", "mod", "\\", "File.c">>

FunctionPool == {
    FunctionCoverage(ReportPath, <<"5", ",", "6">>, <<"1", "0">>, <<>>),
    FunctionCoverage(ReportPath, <<"5">>, <<"5">>, <<"7">>),
    FunctionCoverage(ReportPath, <<>>, <<"6", ",", " ", "1", "1">>, <<"1", "0">>),
    FunctionCoverage(ReportPath, <<"0">>, <<"-", "3">>, <<"x", ",", "8">>),
    FunctionCoverage(ReportPath, <<"1", "2", ",">>, <<" ">>, <<>>),
    FunctionCoverage(ReportPathB, <<"1">>, <<"2">>, <<>>),
    FunctionCoverage(ReportPathB, <<"2">>, <<>>, <<>>),
    FunctionCoverage(<<>>, <<"9">>, <<>>, <<>>),
    FunctionCoverage(ReportPathAlt, <<"5">>, <<>>, <<>>) }

ParseInputs == UNION {[1..n -> FunctionPool] : n \in 0..MaxFunctions}

\* the report files loadXmlFile is given: with the root and up to
\* MaxFunctions records, or without the root
ParseDocuments ==
    {Document(TRUE, functionCoverages) : functionCoverages \in ParseInputs}
        \cup {Document(FALSE, <<>>)}

\* a session that is asked to load the report file on disk
InitParse ==
    /\ xmlFile \in ParseDocuments
    /\ coverageData = NoData
    /\ trackedFiles = EmptyMap
    /\ originalLines = EmptyMap
    /\ lineOffsets = EmptyMap
    /\ sharing = {}
    /\ cacheFile = NoCache
    /\ saveTimeout = FALSE
    /\ timers = 0
    /\ commands = <<>>
    /\ reasons = <<>>
    /\ deactivated = FALSE
    /\ disposed = FALSE
    /\ edits = 0
    /\ last = Op("activate", <<>>, <<>>, <<>>)
    /\ classifications = <<>>
    /\ classificationIndex = EmptyMap
    /\ filePathCache = EmptyMap
    /\ workspaceFiles = {}
    /\ calls = NoCalls
    /\ resolved = EmptyMap

\* loadXmlFile on the report file on disk: parseCoverageXml throws before
\* coverageData is assigned, and the catch shows the message
LoadXmlContent(visible) ==
    LET data == parseCoverageXml(xmlFile)
    IN  /\ Active
        /\ IF data = InvalidReport
           THEN /\ last' = Op("load", <<>>, xmlFile.functionCoverage, <<data.error>>)
                /\ UNCHANGED <<coverageData, trackerVars, cacheFile>>
           ELSE /\ coverageData' = data
                /\ SetTracker(applyHighlightsToAllEditors(TrackerOfNewReport, data, visible))
                /\ cacheFile' = CacheOf(lineOffsets', classifications)
                /\ last' = Op("load", <<>>, xmlFile.functionCoverage, <<>>)
        /\ UNCHANGED <<saveTimeout, timers, deactivated, disposed, edits, classVars, resolverVars, xmlFile, commands, reasons>>

\* the file on disk, and the fixture report as another file
NextParse ==
    \/ \E visible \in {{}, {LocalPath4}} : LoadXmlContent(visible)
    \/ \E visible \in {{}, {LocalPath4}} : LoadXmlFile(visible)
    \/ \E f \in LocalFiles : EditorShown(f)

SpecParse == InitParse /\ [][NextParse]_vars

(***************************************************************************)
(* Registration over restored offsets: the cache file holds offsets of     *)
(* LocalPath4 when the session starts, the report is loaded and the file   *)
(* is shown.  Deleting the first five lines leaves the offset 1 -> -5.     *)
(***************************************************************************)
RestoreLines == {1, 11}
RestoreDeltas == {-5, -1, 2}

RestoreMaps == UNION {[lines -> RestoreDeltas] : lines \in (SUBSET RestoreLines) \ {{}}}

InitRestore ==
    \E offsets \in RestoreMaps :
        /\ cacheFile = CacheOf([f \in {LocalPath4} |-> offsets], <<>>)
        /\ classifications = <<>>
        /\ classificationIndex = EmptyMap
        /\ coverageData = NoData
        /\ trackedFiles = EmptyMap
        /\ originalLines = EmptyMap
        /\ lineOffsets = EmptyMap
        /\ sharing = {}
        /\ saveTimeout = FALSE
        /\ timers = 0
        /\ commands = <<>>
        /\ reasons = <<>>
        /\ deactivated = TRUE
        /\ disposed = TRUE
        /\ edits = 0
        /\ last = Op("exit", <<>>, <<>>, <<>>)
        /\ filePathCache = EmptyMap
        /\ workspaceFiles = {}
        /\ calls = NoCalls
        /\ resolved = EmptyMap
        /\ xmlFile = ReportDocument

NextRestore ==
    \/ Activate
    \/ \E visible \in SUBSET LocalFiles : LoadXmlFile(visible)
    \/ \E f \in LocalFiles : EditorShown(f)

SpecRestore == InitRestore /\ [][NextRestore]_vars

(***************************************************************************)
(* Properties of the line drift tracker.                                   *)
(***************************************************************************)
\* the single change of the last event, when it carried exactly one
OneChange(op) == op.arg[1]
IsEdit(op) == op.op = "edit"
StartLineOf(c) == c.start + 1
EndLineOf(c) == c.end + 1
DeltaOf(c) == (c.newlines + 1) - (c.end - c.start + 1)
SetsOf(t) == <<t.coveredLines, t.uncoveredLines, t.partialCoveredLines>>

\* what a tracker of the next session holds for filePath once it has imported
\* the offsets saved now and the file is registered from the report again
Replayed(filePath) ==
    applyHighlightsToEditor(
        [ClearedTracker EXCEPT !.lineOffsets =
            importOffsets(EmptyMap, CacheOf(lineOffsets, <<>>).lineOffsets)],
        coverageData, filePath).trackedFiles[filePath]

\* C1: drift idempotence: the exported offsets, applied to the freshly
\* registered lines of the report, give the covered, uncovered and partial
\* sets that live tracking holds.
DriftIdempotence ==
    \A f \in DOMAIN trackedFiles : Replayed(f) = trackedFiles[f]

\* C2: deletion drop: an edit that deletes whole lines (range from the start
\* of one line to the start of a later one, empty text) drops the tracked
\* lines that were deleted and keeps every later line, renumbered by delta;
\* uncovered {10,11,12} with line 11 deleted becomes {10,11}.
DeletionDropStep ==
    (/\ IsEdit(last')
     /\ last'.file \in DOMAIN trackedFiles
     /\ Len(last'.arg) = 1
     /\ OneChange(last').newlines = 0
     /\ OneChange(last').end > OneChange(last').start)
    => LET c == OneChange(last')
           Kept(S) == {l \in S : l < StartLineOf(c)}
                      \cup {l + DeltaOf(c) : l \in {x \in S : x >= EndLineOf(c)}}
       IN  /\ \A i \in 1..3 : SetsOf(trackedFiles'[last'.file])[i]
                                = Kept(SetsOf(trackedFiles[last'.file])[i])
           /\ (c = [start |-> 10, end |-> 11, newlines |-> 0]
               /\ trackedFiles[last'.file].uncoveredLines = {10, 11, 12})
              => trackedFiles'[last'.file].uncoveredLines = {10, 11}

\* C2: every whole-line deletion drops the deleted tracked lines and keeps each
\* later line renumbered by delta; {10,11,12} less line 11 is {10,11}.
DeletionDrop == [][DeletionDropStep]_vars

\* C3: insertion shift: a net insertion (delta > 0) keeps every tracked line
\* before startLine, moves every tracked line at or after startLine down by
\* delta, in all three sets, and drops no line.
InsertionShiftStep ==
    (/\ IsEdit(last')
     /\ last'.file \in DOMAIN trackedFiles
     /\ Len(last'.arg) = 1
     /\ DeltaOf(OneChange(last')) > 0)
    => LET c == OneChange(last')
           Shift(S) == {IF l < StartLineOf(c) THEN l ELSE l + DeltaOf(c) : l \in S}
       IN  \A i \in 1..3 :
              /\ SetsOf(trackedFiles'[last'.file])[i]
                   = Shift(SetsOf(trackedFiles[last'.file])[i])
              /\ Cardinality(SetsOf(trackedFiles'[last'.file])[i])
                   = Cardinality(SetsOf(trackedFiles[last'.file])[i])

\* C3: every net insertion keeps the lines before startLine, moves the lines at
\* or after startLine by delta in all three sets, and drops none.
InsertionShift == [][InsertionShiftStep]_vars

\* C3 witness: two lines inserted at line 5 moved uncovered {10,11,12} to
\* {12,13,14}
InsertionShiftSeen ==
    /\ IsEdit(last)
    /\ last.arg = <<[start |-> 4, end |-> 4, newlines |-> 2]>>
    /\ last.file \in DOMAIN trackedFiles
    /\ originalLines[last.file].uncoveredLines = {10, 11, 12}
    /\ trackedFiles[last.file].uncoveredLines = {12, 13, 14}
    /\ trackedFiles[last.file].coveredLines = {7, 11}
    /\ lineOffsets[last.file] = [l \in {5} |-> 2]

\* C4: an edit with delta # 0 keeps every tracked line after the edited
\* range (L > endLine), at L + delta.
LaterLinesKeptStep ==
    (/\ IsEdit(last')
     /\ last'.file \in DOMAIN trackedFiles
     /\ Len(last'.arg) = 1
     /\ DeltaOf(OneChange(last')) # 0)
    => LET c == OneChange(last')
       IN  \A i \in 1..3 :
              \A l \in SetsOf(trackedFiles[last'.file])[i] :
                 l > EndLineOf(c)
                 => l + DeltaOf(c) \in SetsOf(trackedFiles'[last'.file])[i]

\* C4: every edit with delta # 0 keeps each tracked line after the edited range
\* at its number plus delta.
LaterLinesKept == [][LaterLinesKeptStep]_vars

\* C5: no-op edit: an event whose changes all have delta 0 changes no
\* tracked set, no baseline and no offset, and handleDocumentChange returns
\* false.
NoOpEditStep ==
    (/\ IsEdit(last')
     /\ \A i \in 1..Len(last'.arg) : DeltaOf(last'.arg[i]) = 0)
    => /\ trackedFiles' = trackedFiles
       /\ originalLines' = originalLines
       /\ lineOffsets' = lineOffsets
       /\ last'.result = FALSE

\* C5: every event whose changes all have delta 0 leaves the tracked sets and
\* the offsets as they were and returns false.
NoOpEdit == [][NoOpEditStep]_vars

\* C5 witness: an event of two changes with delta 0 on a tracked file that
\* has drifted was reported unchanged
NoOpEditSeen ==
    /\ IsEdit(last)
    /\ Len(last.arg) = 2
    /\ \A i \in 1..2 : DeltaOf(last.arg[i]) = 0
    /\ last.arg[1].end > last.arg[1].start
    /\ last.file \in DOMAIN trackedFiles
    /\ trackedFiles[last.file].uncoveredLines = {10, 11, 12}
    /\ last.result = FALSE

\* the offsets of the files that have drifted, as saveCache writes them
DriftOf(allOffsets) ==
    LET saved == CacheOf(allOffsets, <<>>).lineOffsets
    IN  [f \in {x \in DOMAIN saved : DOMAIN saved[x] # {}} |-> saved[f]]

SavedDrift == IF cacheFile = NoCache THEN EmptyMap
              ELSE [f \in {x \in DOMAIN cacheFile.lineOffsets :
                              DOMAIN cacheFile.lineOffsets[x] # {}} |->
                       cacheFile.lineOffsets[f]]

\* C6: drift survives restarts: the first step of a shutdown (deactivate or
\* the disposal of the subscriptions) leaves in the cache file the offsets
\* the tracker held, and the second step leaves them there.
ShutdownKeepsDriftStep ==
    /\ (Active /\ ~Active') => SavedDrift' = DriftOf(lineOffsets)
    /\ (~Active /\ deactivated' /\ disposed' /\ ~(deactivated /\ disposed))
       => SavedDrift' = SavedDrift

\* C6: after a shutdown the cache file holds the offsets the tracker had
\* accumulated just before it.
ShutdownKeepsDrift == [][ShutdownKeepsDriftStep]_vars

(***************************************************************************)
(* Properties of the classification store.                                 *)
(***************************************************************************)
\* the entries the groups hold, each with its place <<group, position>>
Stored ==
    UNION {{<<i, j>> : j \in 1..Len(classifications[i].list)} :
              i \in 1..Len(classifications)}
EntryAt(pl) == classifications[pl[1]].list[pl[2]]
StoredEntries == {EntryAt(pl) : pl \in Stored}

\* C7: at most one ClassifiedLine per (file, line) pair over all groups.
OneEntryPerLine ==
    \A a \in Stored, b \in Stored :
        (EntryAt(a).filePath = EntryAt(b).filePath /\ EntryAt(a).line = EntryAt(b).line)
        => a = b

\* path p agrees with path q on their last k segments for a k the resolver tries
SuffixMatches(p, q) ==
    \E k \in MinDepth..DefaultDepth : getPathSuffix(p, k) = getPathSuffix(q, k)

\* C8: dual-identity lookup: isClassified(localPath, line) returns the entry
\* stored for (reportPath, line) for every localPath that suffix-matches
\* reportPath at a depth from 5 down to 2.
DualIdentityLookup ==
    \A e \in StoredEntries : \A p \in ClassPaths :
        SuffixMatches(p, e.filePath)
        => isClassified(classificationIndex, p, e.line) # NotFound

\* C9: removal completeness: classify(path, line) followed by
\* removeClassification(path, line) leaves isClassified(path, line) none, no
\* group with an entry for that path and line, no empty group, and the index
\* agreeing with the groups about that line.
RemovalCompleteStep ==
    (/\ last.op = "classify"
     /\ last'.op = "remove"
     /\ last'.file = last.file
     /\ last'.arg = last.arg.line)
    => /\ isClassified(classificationIndex', last'.file, last'.arg) = NotFound
       /\ \A i \in 1..Len(classifications') :
             /\ classifications'[i].list # <<>>
             /\ \A j \in 1..Len(classifications'[i].list) :
                   ~(/\ classifications'[i].list[j].filePath = last'.file
                     /\ classifications'[i].list[j].line = last'.arg)

\* C9: every removeClassification that follows classifyLine on the same path
\* and line leaves no entry, no empty group and no index hit for them.
RemovalComplete == [][RemovalCompleteStep]_vars

\* C10: the index and the groups never diverge: isClassified(path, line)
\* returns an entry exactly when a group stores an entry with that line and
\* the same normalized suffix, and the entry returned is stored in a group.
IndexMatchesGroups ==
    \A p \in ClassPaths, l \in ClassLines :
        LET hit == isClassified(classificationIndex, p, l)
        IN  /\ (hit # NotFound) <=>
                  (\E e \in StoredEntries :
                      e.line = l /\ pathsMatch(e.filePath, p))
            /\ hit # NotFound => hit \in StoredEntries

\* C11: removeClassification(p, line) removes every entry of that line that
\* is stored under the other form of the path, one that differs from p and
\* has the same normalized suffix, from its group and from the index.
RemoveEitherFormStep ==
    last'.op = "remove"
    => \A e \in StoredEntries :
          (/\ e.line = last'.arg
           /\ e.filePath # last'.file
           /\ pathsMatch(e.filePath, last'.file))
          => /\ e \notin StoredEntries'
             /\ isClassified(classificationIndex', e.filePath, e.line) # e

\* C11: every removal by the local or the report form of a path removes the
\* entry stored under the other form from its group and from the index.
RemoveEitherForm == [][RemoveEitherFormStep]_vars

\* C12: the index rebuilt from the groups is the index that the classify
\* operations which created the groups built incrementally: the same keys
\* mapped to the same entries.
RebuildMatchesIncremental == rebuildIndex(classifications) = classificationIndex

\* the places <<group, position>> at which `groups` hold the entry that the
\* classify operation `op` asked for
PlacesIn(groups, op) ==
    {pl \in UNION {{<<i, j>> : j \in 1..Len(groups[i].list)} : i \in 1..Len(groups)} :
        groups[pl[1]].list[pl[2]] =
            [filePath |-> op.file, line |-> op.arg.line,
             reason |-> op.arg.reason, category |-> op.arg.category]}

\* C13: classification idempotence, one step: classifying again the path,
\* line, category and reason that were classified last changes neither the
\* groups nor the index, and the groups hold that entry exactly once.
ClassifyIdempotentStep ==
    (/\ last.op = "classify"
     /\ last'.op = "classify"
     /\ last'.file = last.file
     /\ last'.arg = last.arg)
    => /\ classifications' = classifications
       /\ classificationIndex' = classificationIndex
       /\ Cardinality(PlacesIn(classifications', last')) = 1

\* C13: classifying the identical path, line, category and reason a second
\* time leaves the groups and the index as they were after the first time,
\* with exactly one entry.
ClassifyIdempotent == [][ClassifyIdempotentStep]_vars

\* C13 witness: the identical classification was repeated and found stored;
\* the groups hold it once and the index returns it
ClassifyIdempotentSeen ==
    /\ last.op = "classify"
    /\ last.result = FALSE
    /\ last.file = ReportPath
    /\ Cardinality(PlacesIn(classifications, last)) = 1
    /\ CountEntries(classifications) = 1
    /\ isClassified(classificationIndex, ReportPath, last.arg.line) \in StoredEntries

(***************************************************************************)
(* Properties of the path resolver.                                        *)
(***************************************************************************)
\* C15: once a resolution of a report path has completed, the cache holds a
\* result for the path and every lookup returns the result that completed
\* resolution returned, the local path found or none.
CachedResultKept ==
    \A p \in DOMAIN resolved :
        /\ p \in DOMAIN filePathCache
        /\ findLocalFilePath(filePathCache, p) = resolved[p]

\* C16: loadXmlFile and clearCoverage leave no resolution in the cache that
\* was cached before them.
CacheClearedOnReloadStep ==
    last'.op \in {"load", "clear"}
    => \A p \in DOMAIN filePathCache : p \notin DOMAIN filePathCache'

\* C16: every load of a report and every clear-coverage empties the
\* resolution cache.
CacheClearedOnReload == [][CacheClearedOnReloadStep]_vars

\* both paths have at least k segments and the same last k, normalized
AgreeOnLast(p, q, k) ==
    LET a == SplitParts(normalizePath(p))
        b == SplitParts(normalizePath(q))
    IN  /\ Len(a) >= k
        /\ Len(b) >= k
        /\ SubSeq(a, Len(a) - k + 1, Len(a)) = SubSeq(b, Len(b) - k + 1, Len(b))

\* C14: findMatchingCoverage returns an entry of the report only when the
\* entry's path and the local path agree on at least their last two
\* segments, never one that shares only the file name, and it returns an
\* entry whenever some entry agrees on the last two segments.
MatchFloor ==
    last.op = "match"
    => /\ last.result # NotFound
          => /\ \E i \in 1..Len(last.arg) : last.arg[i] = last.result
             /\ AgreeOnLast(last.result.fileName, last.file, MinDepth)
       /\ (\E i \in 1..Len(last.arg) :
              AgreeOnLast(last.arg[i].fileName, last.file, MinDepth))
          => last.result # NotFound

\* the lines getUncoveredBlock treats as uncovered in the file of the last
\* operation: none when the file is not tracked
UncoveredOrPartial ==
    IF last.file \in DOMAIN trackedFiles
    THEN trackedFiles[last.file].uncoveredLines
         \cup trackedFiles[last.file].partialCoveredLines
    ELSE {}

\* C17: block expansion: for a line in uncovered \cup partial of a tracked
\* file getUncoveredBlock returns, ascending, the maximal run of consecutive
\* lines of that union around the line; for any other line, or a file that
\* is not tracked, it returns the line alone.
BlockIsMaximalRun ==
    last.op = "block"
    => LET block == last.result
           line == last.arg
       IN  IF line \notin UncoveredOrPartial THEN block = <<line>>
           ELSE /\ \E i \in 1..Len(block) : block[i] = line
                /\ \A i \in 1..Len(block) : block[i] \in UncoveredOrPartial
                /\ \A i \in 1..(Len(block) - 1) : block[i + 1] = block[i] + 1
                /\ block[1] - 1 \notin UncoveredOrPartial
                /\ block[Len(block)] + 1 \notin UncoveredOrPartial

\* C17 witness: uncovered {20,21,22} and partial {23}: the block of 21 is
\* [20,21,22,23]
BlockIsMaximalRunSeen ==
    /\ last.op = "block"
    /\ last.file \in DOMAIN trackedFiles
    /\ trackedFiles[last.file].uncoveredLines = {20, 21, 22}
    /\ trackedFiles[last.file].partialCoveredLines = {23}
    /\ last.arg = 21
    /\ last.result = <<20, 21, 22, 23>>

UntrackedEditStep ==
    (/\ IsEdit(last')
     /\ last'.file \notin DOMAIN trackedFiles)
    => /\ trackedFiles' = trackedFiles
       /\ originalLines' = originalLines
       /\ lineOffsets' = lineOffsets
       /\ last'.result = FALSE

\* C18: untracked edits are ignored: a document change of a file that is not
\* registered with the tracker changes no tracker state and returns false.
UntrackedEdit == [][UntrackedEditStep]_vars

\* C18 witness: with a report loaded and another file tracked, a change that
\* adds or removes lines in a file that is not tracked has returned false
UntrackedEditSeen ==
    /\ IsEdit(last)
    /\ coverageData # NoData
    /\ DOMAIN trackedFiles # {}
    /\ last.file \notin DOMAIN trackedFiles
    /\ last.file \notin DOMAIN lineOffsets
    /\ \E i \in 1..Len(last.arg) : DeltaOf(last.arg[i]) # 0
    /\ last.result = FALSE

\* the operations that call saveCache
\* the steps of a command handler: its start, and its resumptions
CommandSteps == {"command"}

\* the operations that have called saveCache: a load whose report was
\* parsed, and the step of a command handler in which it ends
IsSave(op) ==
    \/ op.op \in {"save", "deactivate", "dispose"}
    \/ op.op = "load" /\ Len(op.result) = 0
    \/ op.op \in CommandSteps /\ op.result.saved

RoundTripStep == IsSave(last') => cacheFile' = cacheFile

\* C19: round-trip snapshot: in sessions without edits, every save that
\* follows the load of the cache at activation writes the offsets and the
\* classification groups that were loaded.
RoundTrip == [][RoundTripStep]_vars

(***************************************************************************)
(* Properties of the report parser.                                        *)
(***************************************************************************)
\* C20: line sets of a parsed report: for every file coveredLines,
\* uncoveredLines and partialCoveredLines hold positive integers only and
\* are pairwise disjoint.
ParsedSetsDisjoint ==
    coverageData # NoData
    => \A i \in 1..Len(coverageData.files) :
          LET c == coverageData.files[i]
          IN  /\ \A n \in c.coveredLines \cup c.uncoveredLines
                          \cup c.partialCoveredLines : n >= 1
              /\ c.coveredLines \cap c.uncoveredLines = {}
              /\ c.coveredLines \cap c.partialCoveredLines = {}
              /\ c.uncoveredLines \cap c.partialCoveredLines = {}

\* the numbers of the lists `field` of the records of the last load that
\* name the file
ListedFor(fileName, field) ==
    UNION {Elements(parseLineList(last.arg[k][field])) :
               k \in {n \in 1..Len(last.arg) : last.arg[n].fileName = fileName}}

\* C21: union per file: the report holds exactly one FileCoverage per
\* distinct path string named by a record, spelled as in the report, and
\* each of its three sets is the union of the corresponding lists of all the
\* records that name the path.
UnionPerFile ==
    (last.op = "load" /\ last.result = <<>>)
    => LET files == coverageData.files
       IN  /\ \A i, j \in 1..Len(files) :
                  files[i].fileName = files[j].fileName => i = j
           /\ {files[i].fileName : i \in 1..Len(files)}
                  = {last.arg[k].fileName : k \in 1..Len(last.arg)} \ {<<>>}
           /\ \A i \in 1..Len(files) :
                  /\ files[i].coveredLines
                         = ListedFor(files[i].fileName, "coveredStatementList")
                  /\ files[i].uncoveredLines
                         = ListedFor(files[i].fileName, "unCoveredStatementList")
                  /\ files[i].partialCoveredLines
                         = ListedFor(files[i].fileName, "partialCoveredStatementList")

\* C21 witness: two different records of one file were parsed into one
\* FileCoverage with the lines of both
UnionPerFileSeen ==
    /\ last.op = "load"
    /\ Len(last.arg) = 2
    /\ last.arg[1].fileName = ReportPath
    /\ last.arg[2].fileName = ReportPath
    /\ last.arg[1].unCoveredStatementList = <<"1", "0">>
    /\ last.arg[2].unCoveredStatementList = <<"6", ",", " ", "1", "1">>
    /\ Len(coverageData.files) = 1
    /\ coverageData.files[1].uncoveredLines = {6, 10, 11}
    /\ coverageData.files[1].coveredLines = {5, 6}

InvalidReportStep ==
    (/\ last'.op = "load"
     /\ last'.arg = xmlFile.functionCoverage
     /\ ~xmlFile.root)
    => /\ last'.result = <<InvalidReport.error>>
       /\ coverageData' = coverageData

\* C22: invalid report: loading a report file without the root element fails
\* with the invalid-report error, and the coverage data installed before the
\* load (or none) is still the installed one.
InvalidReportRejected == [][InvalidReportStep]_vars

\* C22 witness: a load of a file without the root has failed while the report
\* loaded before it is still installed
InvalidReportRejectedSeen ==
    /\ last.op = "load"
    /\ ~xmlFile.root
    /\ last.result = <<InvalidReport.error>>
    /\ coverageData = Report

ResetRestoresStep ==
    last'.op = "reset"
    => LET f == last'.file
       IN  /\ f \in DOMAIN originalLines
              => /\ f \in DOMAIN trackedFiles'
                 /\ trackedFiles'[f] = originalLines[f]
           /\ f \notin DOMAIN lineOffsets'
           /\ originalLines' = originalLines
           /\ \A g \in (DOMAIN trackedFiles \cup DOMAIN trackedFiles') \ {f} :
                  /\ g \in DOMAIN trackedFiles /\ g \in DOMAIN trackedFiles'
                  /\ trackedFiles'[g] = trackedFiles[g]
           /\ \A g \in (DOMAIN lineOffsets \cup DOMAIN lineOffsets') \ {f} :
                  /\ g \in DOMAIN lineOffsets /\ g \in DOMAIN lineOffsets'
                  /\ lineOffsets'[g] = lineOffsets[g]

\* C23: reset: resetFile(f) makes the tracked lines of f the baseline taken
\* at its registration and discards the offsets of f; f stays registered
\* and the lines, baselines and offsets of every other file are unchanged.
ResetRestores == [][ResetRestoresStep]_vars

\* C23 witness: a file that had drifted by an edit has been reset to its
\* baseline and has no offsets
ResetRestoresSeen ==
    /\ last.op = "reset"
    /\ saveTimeout
    /\ DOMAIN trackedFiles = {last.file}
    /\ trackedFiles[last.file] = originalLines[last.file]
    /\ trackedFiles[last.file].uncoveredLines = {10, 11, 12}
    /\ last.file \notin DOMAIN lineOffsets

RECURSIVE DeltaSum(_, _)
DeltaSum(offsets, keys) ==
    IF keys = {} THEN 0
    ELSE LET k == CHOOSE x \in keys : TRUE
         IN  offsets[k] + DeltaSum(offsets, keys \ {k})

\* L plus the sum of the deltas of all offset keys <= L
ShiftedBy(offsets, L) == L + DeltaSum(offsets, {k \in DOMAIN offsets : k <= L})

\* an editor showing a file that has offsets and a report entry is registered
RegistersOverOffsets ==
    /\ last'.op = "show"
    /\ last'.file \in DOMAIN lineOffsets
    /\ DOMAIN lineOffsets[last'.file] # {}
    /\ findMatchingCoverage(last'.file, coverageData.files) # NotFound

RegisterShiftsAllStep ==
    RegistersOverOffsets
    => LET f == last'.file
           offsets == lineOffsets[f]
           coverage == findMatchingCoverage(f, coverageData.files)
       IN  /\ trackedFiles'[f].coveredLines
                  = {ShiftedBy(offsets, L) : L \in coverage.coveredLines}
           /\ trackedFiles'[f].uncoveredLines
                  = {ShiftedBy(offsets, L) : L \in coverage.uncoveredLines}
           /\ trackedFiles'[f].partialCoveredLines
                  = {ShiftedBy(offsets, L) : L \in coverage.partialCoveredLines}
           /\ lineOffsets'[f] = offsets

\* C24: registration over restored offsets: registering a file that has
\* offsets exposes the lines of the report, each line L as L plus the sum of
\* the deltas of all offset keys <= L, and keeps the offsets.
RegisterShiftsAll == [][RegisterShiftsAllStep]_vars

Positive(lines) == {n \in lines : n >= 1}

RegisterAppliesOffsetsStep ==
    RegistersOverOffsets
    => LET f == last'.file
           offsets == lineOffsets[f]
           coverage == findMatchingCoverage(f, coverageData.files)
       IN  /\ trackedFiles'[f].coveredLines
                  = Positive({ShiftedBy(offsets, L) : L \in coverage.coveredLines})
           /\ trackedFiles'[f].uncoveredLines
                  = Positive({ShiftedBy(offsets, L) : L \in coverage.uncoveredLines})
           /\ trackedFiles'[f].partialCoveredLines
                  = Positive({ShiftedBy(offsets, L) : L \in coverage.partialCoveredLines})
           /\ lineOffsets'[f] = offsets

\* C24 as amended: registering a file that has offsets exposes the lines of
\* the report, each line L as L plus the sum of the deltas of all offset
\* keys <= L when that is at least 1 and dropped otherwise, and keeps the
\* offsets.
RegisterAppliesOffsets == [][RegisterAppliesOffsetsStep]_vars

\* C24 witness: with the restored offsets 1 -> -5 and 11 -> 2 the shown file
\* is registered with covered {4} (line 5 dropped, 9 moved) and uncovered
\* {5, 8, 9}
RegisterAppliesOffsetsSeen ==
    /\ last.op = "show"
    /\ last.file = LocalPath4
    /\ LocalPath4 \in DOMAIN lineOffsets
    /\ lineOffsets[LocalPath4] = [k \in {1, 11} |-> IF k = 1 THEN -5 ELSE 2]
    /\ trackedFiles[LocalPath4].coveredLines = {4}
    /\ trackedFiles[LocalPath4].uncoveredLines = {5, 8, 9}
    /\ trackedFiles[LocalPath4].partialCoveredLines = {11}

CopiesStep ==
    /\ last'.op \in {"show", "edit", "reset"} => coverageData' = coverageData
    /\ last'.op = "edit" => originalLines' = originalLines

\* C25: the tracker works on copies: registering a file (with
\* applyOffsetsToFile), an edit event or a reset never changes the line sets
\* of the FileCoverage objects of the loaded report, and an edit event never
\* changes the baseline taken at registration.
TrackerCopies == [][CopiesStep]_vars

\* C25 witness: an edit has moved the tracked lines of a file away from its
\* baseline while the report and the baseline hold the lines of the load
TrackerCopiesSeen ==
    /\ last.op = "edit"
    /\ last.result = TRUE
    /\ coverageData = Report
    /\ last.file \in DOMAIN trackedFiles
    /\ trackedFiles[last.file] # originalLines[last.file]
    /\ originalLines[last.file].uncoveredLines = {10, 11, 12}
    /\ sharing = {}

(***************************************************************************)
(* Properties of the highlighter.                                          *)
(***************************************************************************)
\* C26: display precedence: a line that is in the covered set and also in
\* the uncovered or the partial set of the file shown is not among the
\* ranges decorated as covered.
UncoveredOverCovered ==
    (last.op = "show" /\ last.file \in DOMAIN trackedFiles)
    => LET t == trackedFiles[last.file]
       IN  \A lineNum \in t.coveredLines \cap
                          (t.uncoveredLines \cup t.partialCoveredLines) :
               lineNum \notin last.result.coveredRanges

\* no group stores an entry that removeClassification(filePath, line) matches
NotClassified(filePath, line) ==
    \A e \in StoredEntries : ~(pathsMatch(e.filePath, filePath) /\ e.line = line)

RemoveAbsentStep ==
    (last'.op = "remove" /\ NotClassified(last'.file, last'.arg))
    => /\ classifications' = classifications
       /\ classificationIndex' = classificationIndex

\* C27: removing a classification that does not exist is a no-op: the
\* groups and the lookup index are unchanged.
RemoveAbsent == [][RemoveAbsentStep]_vars

\* C27 witness: removeClassification was called for line 42 of a path that
\* has no entry while line 42 of the same file name under another path and
\* line 43 are classified
RemoveAbsentSeen ==
    /\ last.op = "remove"
    /\ last.file = LocalPath4
    /\ last.arg = 42
    /\ NotClassified(LocalPath4, 42)
    /\ \E e \in StoredEntries : e.filePath = ReportPath /\ e.line = 42
    /\ \E e \in StoredEntries : e.line = 43

(***************************************************************************)
(* Properties of net deletions.                                            *)
(***************************************************************************)
\* the lines of S outside the removed range of the net deletion c, each at
\* the number it has after the edit
OutsideRemoved(S, c) ==
    {l \in S : l < StartLineOf(c)}
    \cup {l + DeltaOf(c) : l \in {x \in S : x > StartLineOf(c) - DeltaOf(c) - 1}}

NetDeletionStep ==
    (/\ IsEdit(last')
     /\ last'.file \in DOMAIN trackedFiles
     /\ Len(last'.arg) = 1
     /\ DeltaOf(OneChange(last')) < 0)
    => \A i \in 1..3 :
          SetsOf(trackedFiles'[last'.file])[i]
              \subseteq OutsideRemoved(SetsOf(trackedFiles[last'.file])[i],
                                       OneChange(last'))

\* C28: after a net deletion (oldLineSpan > newLineSpan) no tracked line
\* whose number before the edit was in [startLine, startLine + (oldLineSpan
\* - newLineSpan) - 1] is still tracked, in any of the three sets: every
\* line tracked after the edit is a line from outside that range.
NetDeletionDrops == [][NetDeletionStep]_vars

\* C28 witness: the deletion of line 11 from uncovered {10, 11, 12} has left
\* no line tracked at or after 11
NetDeletionDropsSeen ==
    /\ IsEdit(last)
    /\ last.arg = <<[start |-> 10, end |-> 11, newlines |-> 0]>>
    /\ last.file \in DOMAIN trackedFiles
    /\ originalLines[last.file].uncoveredLines = {10, 11, 12}
    /\ lineOffsets[last.file] = [l \in {11} |-> -1]
    /\ 11 \notin trackedFiles[last.file].uncoveredLines
    /\ 10 \in trackedFiles[last.file].uncoveredLines

(***************************************************************************)
(* Properties of findMatchingCoverage.                                     *)
(***************************************************************************)
\* the last k segments of a normalized path, all of them when it has fewer
LastSegments(p, k) ==
    LET parts == SplitParts(normalizePath(p))
    IN  [i \in 1..(IF Len(parts) < k THEN Len(parts) ELSE k) |->
            parts[Len(parts) - (IF Len(parts) < k THEN Len(parts) ELSE k) + i]]

\* the entry matches the local path at depth k: their last k segments are equal
MatchesAt(p, q, k) == LastSegments(p, k) = LastSegments(q, k)

\* the depths from 5 down to 2 at which some entry of the report matches
\* the local path of the last call
DepthsMatched ==
    {k \in MinDepth..DefaultDepth :
        \E i \in 1..Len(last.arg) : MatchesAt(last.arg[i].fileName, last.file, k)}

GreatestDepth == CHOOSE k \in DepthsMatched : \A j \in DepthsMatched : j <= k

\* C29: findMatchingCoverage returns the first entry, in the enumeration
\* order of the report, among those that match the local path at the
\* greatest depth k from 5 down to 2 at which any entry matches, and no
\* entry when none matches at any of these depths.
FirstAtGreatestDepth ==
    last.op = "match"
    => IF DepthsMatched = {} THEN last.result = NotFound
       ELSE LET first == CHOOSE i \in 1..Len(last.arg) :
                       /\ MatchesAt(last.arg[i].fileName, last.file, GreatestDepth)
                       /\ \A j \in 1..(i - 1) :
                              ~MatchesAt(last.arg[j].fileName, last.file, GreatestDepth)
            IN  last.result = last.arg[first]

\* C29 witness: both entries of the report match the local path at depth 2
\* and at no greater depth, and the first one, the relative path, was
\* returned
FirstAtGreatestDepthSeen ==
    /\ last.op = "match"
    /\ last.file = LocalPath2
    /\ last.arg = <<CoverageOf(ReportRelative), CoverageOf(ReportPath)>>
    /\ DepthsMatched = {MinDepth}
    /\ last.result = CoverageOf(ReportRelative)

(***************************************************************************)
(* Properties of the resolution cache.                                     *)
(***************************************************************************)
AppendOnlyStep ==
    last'.op \notin {"load", "clear", "activate", "clearCache"}
    => \A p \in DOMAIN filePathCache :
          /\ p \in DOMAIN filePathCache'
          /\ filePathCache'[p] = filePathCache[p]

\* C30: the resolution cache is append-only: between two clearings of the
\* cache every step, of any resolution in progress, leaves each path that
\* has a cached result with that result; entries are only added.
CacheAppendOnly == [][AppendOnlyStep]_vars

(***************************************************************************)
(* Atomicity of the classification store.  A step of the model is the part *)
(* of a handler that runs without an await, so what another handler can    *)
(* observe is the state between two steps.                                 *)
(***************************************************************************)
\* the entry a classify operation asks for
EntryOf(op) == [filePath |-> op.file, line |-> op.arg.line,
                reason |-> op.arg.reason, category |-> op.arg.category]

StoreAndIndexStep ==
    /\ last'.op = "classify"
       => IF classifications' # classifications
          THEN /\ EntryOf(last') \in StoredEntries' \ StoredEntries
               /\ classificationIndex'
                      = addToIndex(classificationIndex, EntryOf(last'))
          ELSE classificationIndex' = classificationIndex
    /\ last'.op = "remove"
       => /\ \A e \in StoredEntries \ StoredEntries' :
                 isClassified(classificationIndex', e.filePath, e.line) = NotFound
          /\ classifications' = classifications
                 => classificationIndex' = classificationIndex

\* C31: a classify or remove operation changes the group storage and the
\* lookup index in one uninterrupted step: no state between two steps has
\* the entry added to, or removed from, one of them and not the other.
StoreAndIndexTogether == [][StoreAndIndexStep]_vars

\* C31 witness: a remove has taken the only entry out of the groups and out
\* of the index at once, after a classify had put it into both
StoreAndIndexTogetherSeen ==
    /\ last.op = "remove"
    /\ last.file = ReportPath
    /\ last.arg = 43
    /\ classifications = <<>>
    /\ classificationIndex = EmptyMap

(***************************************************************************)
(* Properties of the debounced save.                                       *)
(***************************************************************************)
DebounceStep ==
    (IsEdit(last') /\ last'.result = TRUE /\ last'.file \in DOMAIN trackedFiles)
    => timers' = 1

\* the timer has fired and saveCache has written the offsets the tracker holds
SavedCurrent ==
    /\ last.op = "save"
    /\ timers = 0
    /\ cacheFile = CacheOf(lineOffsets, classifications)

\* C32: persistence of the offsets is debounced: every line-changing edit
\* of a tracked file leaves exactly one save scheduled, at most one save is
\* pending at any time, and a pending save eventually runs and writes the
\* offsets the tracker holds then.
DebouncedSave ==
    /\ [](timers <= 1)
    /\ [][DebounceStep]_vars
    /\ (timers > 0) ~> SavedCurrent

\* C32 witness: a second line-changing edit of a tracked file was made
\* while the save of the first was pending: one timer is pending, and the
\* cache file holds no offsets of the file yet
DebouncedSaveSeen ==
    /\ IsEdit(last)
    /\ last.result = TRUE
    /\ edits = 2
    /\ timers = 1
    /\ saveTimeout
    /\ lineOffsets[LocalPath4] = [l \in {11} |-> 3]
    /\ cacheFile = CacheOf([f \in {LocalPath4} |-> EmptyMap], <<>>)

\* C33: no empty group is ever stored: after any sequence of classify and
\* remove operations every category:reason group in storage holds at least
\* one entry, and no two groups have the same key.
NoEmptyGroup ==
    /\ \A i \in 1..Len(classifications) : classifications[i].list # <<>>
    /\ \A i, j \in 1..Len(classifications) :
           classifications[i].key = classifications[j].key => i = j

\* C33 witness: the removal of the last entry of the group document:ui has
\* deleted the group and left the group of another key with its entry
NoEmptyGroupSeen ==
    /\ last.op = "remove"
    /\ last.file = ReportPath
    /\ last.arg = 42
    /\ Len(classifications) = 1
    /\ classifications[1].key = getKey("comment-planned", "")
    /\ Len(classifications[1].list) = 1
    /\ classifications[1].list[1].line = 43
    /\ isClassified(classificationIndex, ReportPath, 43) # NotFound

EditLeavesStoreStep ==
    IsEdit(last')
    => /\ classifications' = classifications
       /\ classificationIndex' = classificationIndex

\* C34: edit events never change the classification store or its index: a
\* ClassifiedLine keeps the line number it had when it was classified,
\* whatever drift its file has later.
EditLeavesStore == [][EditLeavesStoreStep]_vars

\* C34 witness: line 11 of the shown file was classified while uncovered,
\* and the command still waits for the host with the cache file not yet
\* written; a line inserted at 11 has moved the uncovered lines to
\* {10, 12, 13} and the entry and its index key still say 11
EditLeavesStoreSeen ==
    /\ IsEdit(last)
    /\ Len(commands) = 1
    /\ commands[1].wait = "update"
    /\ cacheFile = CacheOf([f \in {LocalPath4} |-> EmptyMap], <<>>)
    /\ last.file = LocalPath4
    /\ last.result = TRUE
    /\ trackedFiles[LocalPath4].uncoveredLines = {10, 12, 13}
    /\ StoredEntries = {[filePath |-> LocalPath4, line |-> 11,
                         reason |-> "ui", category |-> "document"]}
    /\ isClassified(classificationIndex, LocalPath4, 11) \in StoredEntries
    /\ isClassified(classificationIndex, LocalPath4, 12) = NotFound

(***************************************************************************)
(* Properties of the replay of offsets on a baseline.                      *)
(***************************************************************************)
\* applyOffsetsToFile of the offsets `allOffsets` on the baseline of the file
OnBaseline(allOffsets, baseline, filePath) ==
    Lines(applyOffsetsToFile(allOffsets, filePath,
                             [fileName |-> filePath,
                              coveredLines |-> baseline.coveredLines,
                              uncoveredLines |-> baseline.uncoveredLines,
                              partialCoveredLines |-> baseline.partialCoveredLines]))

\* the file of the edit is tracked as registered: no offsets, the lines of
\* the baseline
FreshlyRegistered(filePath) ==
    /\ filePath \in DOMAIN trackedFiles
    /\ filePath \in DOMAIN lineOffsets
    /\ DOMAIN lineOffsets[filePath] = {}
    /\ trackedFiles[filePath] = originalLines[filePath]

OneInsertionStep ==
    (/\ IsEdit(last')
     /\ FreshlyRegistered(last'.file)
     /\ Len(last'.arg) = 1
     /\ DeltaOf(OneChange(last')) > 0)
    => OnBaseline(lineOffsets', originalLines'[last'.file], last'.file)
           = trackedFiles'[last'.file]

\* C35: after a fresh registration with no offsets and exactly one net
\* insertion, applyOffsetsToFile of the offsets of the file on the
\* registered baseline gives exactly the live tracked lines.
OneInsertionReplays == [][OneInsertionStep]_vars

\* C35 witness: one line inserted at line 11 of a freshly registered file:
\* the offsets {11: 1} applied to the baseline {10, 11, 12} give the live
\* uncovered lines {10, 12, 13}
OneInsertionReplaysSeen ==
    /\ IsEdit(last)
    /\ Len(last.arg) = 1
    /\ DeltaOf(OneChange(last)) = 1
    /\ edits = 1
    /\ last.file \in DOMAIN trackedFiles
    /\ lineOffsets[last.file] = [l \in {11} |-> 1]
    /\ originalLines[last.file].uncoveredLines = {10, 11, 12}
    /\ trackedFiles[last.file].uncoveredLines = {10, 12, 13}
    /\ OnBaseline(lineOffsets, originalLines[last.file], last.file)
           = trackedFiles[last.file]

(***************************************************************************)
(* Well-formedness of the tracked sets.                                    *)
(***************************************************************************)
\* the three sets are pairwise disjoint and hold line numbers >= 1 only
WellFormed(t) ==
    /\ \A n \in t.coveredLines \cup t.uncoveredLines \cup t.partialCoveredLines :
           n >= 1
    /\ t.coveredLines \cap t.uncoveredLines = {}
    /\ t.coveredLines \cap t.partialCoveredLines = {}
    /\ t.uncoveredLines \cap t.partialCoveredLines = {}

EditKeepsWellFormedStep ==
    (/\ IsEdit(last')
     /\ last'.file \in DOMAIN trackedFiles
     /\ WellFormed(trackedFiles[last'.file]))
    => WellFormed(trackedFiles'[last'.file])

\* C36: edits keep the tracked sets well-formed: an edit event on a file
\* whose three tracked sets are pairwise disjoint and hold lines >= 1 leaves
\* them pairwise disjoint and >= 1, so sets that are well-formed at
\* registration stay so through any sequence of edit events.
EditKeepsWellFormed == [][EditKeepsWellFormedStep]_vars

\* C36 witness: two events, a deletion and an insertion, have moved the
\* lines of a file registered with disjoint sets, and its sets are disjoint
EditKeepsWellFormedSeen ==
    /\ IsEdit(last)
    /\ edits = 2
    /\ Len(last.arg) = 1
    /\ DeltaOf(OneChange(last)) > 0
    /\ last.file \in DOMAIN trackedFiles
    /\ WellFormed(originalLines[last.file])
    /\ WellFormed(trackedFiles[last.file])
    /\ Cardinality(trackedFiles[last.file].uncoveredLines) < 3
    /\ trackedFiles[last.file].partialCoveredLines # {14}

\* C37: applyOffsetsToFile maps no two distinct lines of a baseline to the
\* same current line: for the offsets that edits have produced, a baseline
\* with pairwise disjoint sets is replayed to pairwise disjoint sets.
ReplayInjective ==
    \A f \in DOMAIN originalLines \cap DOMAIN lineOffsets :
        WellFormed(originalLines[f])
        => LET base == originalLines[f]
               all == base.coveredLines \cup base.uncoveredLines
                          \cup base.partialCoveredLines
               Moved(l) == l + calculateOffset(lineOffsets[f], l)
           IN  /\ \A a \in all, b \in all :
                      (Moved(a) = Moved(b) /\ Moved(a) > 0) => a = b
               /\ WellFormed(OnBaseline(lineOffsets, base, f))

====
